---- MODULE Spec2Model ----
(***************************************************************************)
(* Model of the tmt-mvp backend: the case-versioning store, the run        *)
(* snapshot binder, the execution/result engine and the SQLite schema      *)
(* they write to.  Every table of 001_init.sql that the services touch is  *)
(* a variable; every exported service function is an action that runs the  *)
(* function's statements in order inside its db.transaction.               *)
(*                                                                         *)
(* Wall-clock columns (created_at, updated_at, executed_at, expires_at)    *)
(* are not represented: they are written from nowIso() by the same         *)
(* statements that write the modelled columns and are read by no guard.    *)
(***************************************************************************)
EXTENDS Integers, Sequences, FiniteSets, TLC

(***************************************************************************)
(* Bounds of the model.                                                    *)
(***************************************************************************)
MaxCases == 2
MaxVersions == 3
MaxRuns == 1
MaxResults == 1
MaxLen == 3
MaxSuites == 2
MaxImports == 1
MaxRunsBinding == 2
MaxProjects == 2
MaxResultsHistory == 2
MaxCasesPriority == 3
MaxImportsTwice == 2
MaxUsers == 3
MaxSessions == 2
MaxNow == 3

(***************************************************************************)
(* Values.                                                                 *)
(***************************************************************************)
\* SQL NULL / JS null in an id column (ids are AUTOINCREMENT, hence >= 1).
NULL == 0
\* Number(x) of a non-numeric x; better-sqlite3 binds it as SQL NULL.
NaN == 0 - 1000

StepExecutionStatus == {"untested", "pass", "fail", "blocked"}

Max(S) == CHOOSE x \in S : \A y \in S : y <= x

Range(s) == {s[i] : i \in DOMAIN s}

\* f without the keys in S (DELETE ... WHERE id IN S).
Without(f, S) == [k \in (DOMAIN f) \ S |-> f[k]]

(***************************************************************************)
(* runService.calcOverallStatus                                            *)
(***************************************************************************)
calcOverallStatusFirstOnly(statuses) ==
    IF Len(statuses) = 0 THEN "untested"
    ELSE IF statuses[1] = "fail" THEN "fail"
    ELSE IF statuses[1] = "blocked" THEN "blocked"
    ELSE IF \A i \in DOMAIN statuses : statuses[i] = "pass" THEN "pass"
    ELSE IF \A i \in DOMAIN statuses : statuses[i] = "untested" THEN "untested"
    ELSE "blocked"

calcOverallStatusMixUntested(statuses) ==
    IF Len(statuses) = 0 THEN "untested"
    ELSE IF \E i \in DOMAIN statuses : statuses[i] = "fail" THEN "fail"
    ELSE IF \E i \in DOMAIN statuses : statuses[i] = "blocked" THEN "blocked"
    ELSE IF \A i \in DOMAIN statuses : statuses[i] = "pass" THEN "pass"
    ELSE "untested"

calcOverallStatus(statuses) ==
    IF Len(statuses) = 0 THEN "untested"
    ELSE IF \E i \in DOMAIN statuses : statuses[i] = "fail" THEN "fail"
    ELSE IF \E i \in DOMAIN statuses : statuses[i] = "blocked" THEN "blocked"
    ELSE IF \A i \in DOMAIN statuses : statuses[i] = "pass" THEN "pass"
    ELSE IF \A i \in DOMAIN statuses : statuses[i] = "untested" THEN "untested"
    ELSE "blocked"

\* The overall status the run-execution screen shows, were a list of pass
\* and untested steps to count as untested.
computedRunOverallStatusPending(runCaseSteps) ==
    LET statuses == [i \in DOMAIN runCaseSteps |-> runCaseSteps[i].status]
    IN IF Len(runCaseSteps) = 0 THEN "untested"
       ELSE IF \E i \in DOMAIN statuses : statuses[i] = "fail" THEN "fail"
       ELSE IF \E i \in DOMAIN statuses : statuses[i] = "blocked" THEN "blocked"
       ELSE IF \A i \in DOMAIN statuses : statuses[i] = "pass" THEN "pass"
       ELSE "untested"

\* The overall status the run-execution screen shows for the step rows being
\* edited (useMemo over runCaseSteps).
computedRunOverallStatus(runCaseSteps) ==
    LET statuses == [i \in DOMAIN runCaseSteps |-> runCaseSteps[i].status]
    IN IF Len(runCaseSteps) = 0 THEN "untested"
       ELSE IF \E i \in DOMAIN statuses : statuses[i] = "fail" THEN "fail"
       ELSE IF \E i \in DOMAIN statuses : statuses[i] = "blocked" THEN "blocked"
       ELSE IF \A i \in DOMAIN statuses : statuses[i] = "pass" THEN "pass"
       ELSE IF \A i \in DOMAIN statuses : statuses[i] = "untested" THEN "untested"
       ELSE "blocked"

\* The step rows of the run-execution screen once the statuses were chosen
\* in the selects: one row per step of the snapshot, in its order.
RunCaseSteps(statuses) ==
    [i \in DOMAIN statuses |-> [stepNo |-> i, status |-> statuses[i], comment |-> <<>>]]

(***************************************************************************)
(* A text is a sequence of tokens, each a blank " " or a run of non-blank   *)
(* characters, so that String.trim() is computed rather than assumed; the  *)
(* empty string is <<>>.                                                   *)
(***************************************************************************)
RECURSIVE TrimStart(_)
TrimStart(t) ==
    IF Len(t) = 0 THEN t
    ELSE IF Head(t) = " " THEN TrimStart(Tail(t))
    ELSE t

RECURSIVE TrimEnd(_)
TrimEnd(t) ==
    IF Len(t) = 0 THEN t
    ELSE IF t[Len(t)] = " " THEN TrimEnd(SubSeq(t, 1, Len(t) - 1))
    ELSE t

Trim(t) == TrimEnd(TrimStart(t))

(***************************************************************************)
(* caseService.normalizeSteps: map (coerce + trim), filter finite stepNo,  *)
(* stable sort ascending by stepNo.                                        *)
(***************************************************************************)
\* Insert x into the sorted sequence s after every element with stepNo <= x.stepNo.
RECURSIVE InsertSorted(_, _)
InsertSorted(s, x) ==
    IF Len(s) = 0 THEN <<x>>
    ELSE IF Head(s).stepNo <= x.stepNo THEN <<Head(s)>> \o InsertSorted(Tail(s), x)
    ELSE <<x>> \o s

RECURSIVE SortByStepNo(_)
SortByStepNo(s) ==
    IF Len(s) = 0 THEN s
    ELSE InsertSorted(SortByStepNo(SubSeq(s, 1, Len(s) - 1)), s[Len(s)])

normalizeSteps(steps) ==
    LET mapped == [i \in DOMAIN steps |->
                     [stepNo |-> steps[i].stepNo,
                      action |-> Trim(steps[i].action),
                      inputData |-> Trim(steps[i].inputData),
                      expectedResult |-> Trim(steps[i].expectedResult)]]
        finite == SelectSeq(mapped, LAMBDA st : st.stepNo # NaN)
    IN SortByStepNo(finite)

(***************************************************************************)
(* The database.  One variable per table of 001_init.sql; a table with an  *)
(* id that other rows reference is a function from id to row, the leaf     *)
(* tables are sets of rows.  seq is sqlite_sequence (AUTOINCREMENT).       *)
(***************************************************************************)
VARIABLES users, projects, suites, cases, versions, steps,
          runs, runCases, results, stepResults, importLogs, importLogRows,
          seq, last, listA, listB, overallA, overallB, response, editors,
          accounts, sessions, authSeq, now

dbVars == <<users, projects, suites, cases, versions, steps,
            runs, runCases, results, stepResults, importLogs, importLogRows,
            seq, last>>

calcVars == <<listA, listB, overallA, overallB>>

\* The body of the last response to a read request, if the last request
\* was one.
readVars == <<response>>

\* The case screens open in browsers: for each editor where they are (idle,
\* read, saved), the case and the versionNo they loaded and their draft.
clientVars == <<editors>>

\* The columns of users that the accounts are made of, the sessions table,
\* the ids given so far to users and to sessions, and the clock, in units
\* of half the life of a session.
authVars == <<accounts, sessions, authSeq, now>>

vars == <<dbVars, calcVars, readVars, clientVars, authVars>>

\* The database as one value, as a statement sees it.
DB == [users |-> users, projects |-> projects, suites |-> suites,
       cases |-> cases, versions |-> versions, steps |-> steps,
       runs |-> runs, runCases |-> runCases, results |-> results,
       stepResults |-> stepResults, importLogs |-> importLogs,
       importLogRows |-> importLogRows, seq |-> seq]

\* The outcome of a statement or of a transaction body: did it throw, and
\* the database it leaves (on a throw: what was written before the throw).
Ok(d, id) == [ok |-> TRUE, d |-> d, id |-> id]
Fail(d) == [ok |-> FALSE, d |-> d, id |-> NULL]

\* db.transaction(fn)(): COMMIT when fn returns, ROLLBACK and rethrow when it
\* throws.  d0 is the database at BEGIN, r the outcome of fn.
TransactionNoRollback(d0, r) == r

Transaction(d0, r) == IF r.ok THEN r ELSE [r EXCEPT !.d = d0]

\* FOREIGN KEY (...) REFERENCES users(id) on a nullable column.
UserRefOk(d, userId) == userId = NULL \/ userId \in d.users

(***************************************************************************)
(* caseService                                                             *)
(***************************************************************************)
UNDEFINED == "undefined"

\* value ?? dflt
Default(value, dflt) == IF value = UNDEFINED THEN dflt ELSE value

getSuiteName(d, suiteId) ==
    IF suiteId \in DOMAIN d.suites THEN d.suites[suiteId].name ELSE <<"Unknown", " ", "Suite">>

buildSnapshot(d, caseId, input) ==
    [caseId |-> caseId,
     title |-> input.title,
     qualityAttribute |-> Default(input.qualityAttribute, <<>>),
     categoryLarge |-> Default(input.categoryLarge, <<>>),
     categoryMedium |-> Default(input.categoryMedium, <<>>),
     preconditions |-> Default(input.preconditions, <<>>),
     priority |-> Default(input.priority, <<"Medium">>),
     tags |-> Default(input.tags, <<>>),
     suiteId |-> input.suiteId,
     suiteName |-> getSuiteName(d, input.suiteId),
     projectId |-> input.projectId,
     steps |-> normalizeSteps(input.steps)]

\* A JSON text is [json |-> the value it denotes].  JSON.stringify writes a
\* non-finite number as null and every other value of a snapshot (strings,
\* finite numbers, arrays of them) as itself; JSON.parse reads the value of
\* a text back.
JsonNumber(n) == IF n = NaN THEN NULL ELSE n

JSONstringify(snapshot) ==
    [json |-> [snapshot EXCEPT !.caseId = JsonNumber(@),
                               !.suiteId = JsonNumber(@),
                               !.projectId = JsonNumber(@),
                               !.steps = [i \in DOMAIN @ |->
                                            [@[i] EXCEPT !.stepNo = JsonNumber(@)]]]]

\* JSON.stringify(input.tags ?? [])
JSONstringifyTags(tags) == [json |-> Default(tags, <<>>)]

JSONparse(text) == text.json

VersionsOf(d, caseId) == {v \in DOMAIN d.versions : d.versions[v].caseId = caseId}

nextVersionNoSkip(d, caseId) ==
    Max({d.versions[v].versionNo : v \in VersionsOf(d, caseId)} \cup {0}) + 2

nextVersionNo(d, caseId) ==
    Max({d.versions[v].versionNo : v \in VersionsOf(d, caseId)} \cup {0}) + 1

\* The loop of stepStmt.run over snapshot.steps; stops at the first row that
\* violates UNIQUE(case_version_id, step_no).
RECURSIVE InsertSteps(_, _, _)
InsertSteps(d, versionId, stepList) ==
    IF Len(stepList) = 0 THEN Ok(d, versionId)
    ELSE LET st == Head(stepList)
             row == [caseVersionId |-> versionId, stepNo |-> st.stepNo, action |-> st.action,
                     inputData |-> st.inputData, expectedResult |-> st.expectedResult]
         IN IF \E r \in d.steps : r.caseVersionId = versionId /\ r.stepNo = st.stepNo
            THEN Fail(d)
            ELSE InsertSteps([d EXCEPT !.steps = @ \cup {row}], versionId, Tail(stepList))

insertVersion(d, caseId, snapshot, createdBy) ==
    LET versionNo == nextVersionNo(d, caseId)
        versionId == d.seq.versions + 1
        row == [caseId |-> caseId, versionNo |-> versionNo,
                snapshot |-> JSONstringify(snapshot), createdBy |-> createdBy]
    IN IF \/ caseId \notin DOMAIN d.cases
          \/ ~UserRefOk(d, createdBy)
          \/ \E v \in VersionsOf(d, caseId) : d.versions[v].versionNo = versionNo
       THEN Fail(d)
       ELSE InsertSteps([d EXCEPT !.versions = @ @@ (versionId :> row),
                                  !.seq.versions = versionId],
                        versionId, snapshot.steps)

\* UNIQUE(suite_id, title) for the row of caseId holding (suiteId, title).
TitleTaken(d, caseId, suiteId, title) ==
    \E c \in DOMAIN d.cases : c # caseId /\ d.cases[c].suiteId = suiteId /\ d.cases[c].title = title

\* The body of the transaction of createCaseWithVersion.
createCaseWithVersionTx(d, input) ==
    LET caseId == d.seq.cases + 1
        row == [projectId |-> input.projectId, suiteId |-> input.suiteId,
                title |-> input.title,
                qualityAttribute |-> Default(input.qualityAttribute, <<>>),
                categoryLarge |-> Default(input.categoryLarge, <<>>),
                categoryMedium |-> Default(input.categoryMedium, <<>>),
                preconditions |-> Default(input.preconditions, <<>>),
                priority |-> Default(input.priority, <<"Medium">>),
                tags |-> JSONstringifyTags(input.tags),
                currentVersionId |-> NULL]
    IN IF \/ input.projectId \notin d.projects
          \/ input.suiteId \notin DOMAIN d.suites
          \/ TitleTaken(d, caseId, input.suiteId, input.title)
       THEN Fail(d)
       ELSE LET d1 == [d EXCEPT !.cases = @ @@ (caseId :> row), !.seq.cases = caseId]
                r2 == insertVersion(d1, caseId, buildSnapshot(d1, caseId, input), input.createdBy)
            IN IF ~r2.ok THEN Fail(r2.d)
               ELSE Ok([r2.d EXCEPT !.cases[caseId].currentVersionId = r2.id], caseId)

\* createCaseWithVersion whose statements run outside a transaction.
createCaseWithVersionNoTransaction(d, input) == createCaseWithVersionTx(d, input)

createCaseWithVersion(d, input) == Transaction(d, createCaseWithVersionTx(d, input))

\* Variants of the transaction body of createVersionForCase: one that also
\* moves the run-cases of the case to the new version, one that leaves the
\* head pointer where it was, one that rewrites the head version in place.
createVersionForCaseTxRebind(d, caseId, input, createdBy) ==
    LET r1 == insertVersion(d, caseId, buildSnapshot(d, caseId, input), createdBy)
    IN IF ~r1.ok THEN Fail(r1.d)
       ELSE IF \/ input.suiteId \notin DOMAIN r1.d.suites
               \/ TitleTaken(r1.d, caseId, input.suiteId, input.title)
            THEN Fail(r1.d)
            ELSE Ok([r1.d EXCEPT !.cases[caseId] =
                        [@ EXCEPT !.suiteId = input.suiteId,
                                  !.title = input.title,
                                  !.qualityAttribute = Default(input.qualityAttribute, <<>>),
                                  !.categoryLarge = Default(input.categoryLarge, <<>>),
                                  !.categoryMedium = Default(input.categoryMedium, <<>>),
                                  !.preconditions = Default(input.preconditions, <<>>),
                                  !.priority = Default(input.priority, <<"Medium">>),
                                  !.tags = JSONstringifyTags(input.tags),
                                  !.currentVersionId = r1.id],
                              !.runCases = [rc \in DOMAIN @ |->
                                  IF @[rc].caseId = caseId
                                  THEN [@[rc] EXCEPT !.caseVersionId = r1.id]
                                  ELSE @[rc]]],
                    r1.id)

createVersionForCaseTxStaleHead(d, caseId, input, createdBy) ==
    LET r1 == insertVersion(d, caseId, buildSnapshot(d, caseId, input), createdBy)
    IN IF ~r1.ok THEN Fail(r1.d)
       ELSE IF \/ input.suiteId \notin DOMAIN r1.d.suites
               \/ TitleTaken(r1.d, caseId, input.suiteId, input.title)
            THEN Fail(r1.d)
            ELSE Ok([r1.d EXCEPT !.cases[caseId] =
                        [@ EXCEPT !.suiteId = input.suiteId,
                                  !.title = input.title,
                                  !.qualityAttribute = Default(input.qualityAttribute, <<>>),
                                  !.categoryLarge = Default(input.categoryLarge, <<>>),
                                  !.categoryMedium = Default(input.categoryMedium, <<>>),
                                  !.preconditions = Default(input.preconditions, <<>>),
                                  !.priority = Default(input.priority, <<"Medium">>),
                                  !.tags = JSONstringifyTags(input.tags)]],
                    r1.id)

createVersionForCaseTxInPlace(d, caseId, input, createdBy) ==
    IF \/ caseId \notin DOMAIN d.cases
       \/ input.suiteId \notin DOMAIN d.suites
       \/ TitleTaken(d, caseId, input.suiteId, input.title)
    THEN Fail(d)
    ELSE LET head == d.cases[caseId].currentVersionId
         IN Ok([d EXCEPT !.versions[head].snapshot =
                            JSONstringify(buildSnapshot(d, caseId, input)),
                         !.cases[caseId].title = input.title],
               head)

\* createVersionForCase whose UPDATE of the case row leaves priority out.
createVersionForCaseTxKeepPriority(d, caseId, input, createdBy) ==
    LET r1 == insertVersion(d, caseId, buildSnapshot(d, caseId, input), createdBy)
    IN IF ~r1.ok THEN Fail(r1.d)
       ELSE IF \/ input.suiteId \notin DOMAIN r1.d.suites
               \/ TitleTaken(r1.d, caseId, input.suiteId, input.title)
            THEN Fail(r1.d)
            ELSE Ok([r1.d EXCEPT !.cases[caseId] =
                        [@ EXCEPT !.suiteId = input.suiteId,
                                  !.title = input.title,
                                  !.qualityAttribute = Default(input.qualityAttribute, <<>>),
                                  !.categoryLarge = Default(input.categoryLarge, <<>>),
                                  !.categoryMedium = Default(input.categoryMedium, <<>>),
                                  !.preconditions = Default(input.preconditions, <<>>),
                                  !.tags = JSONstringifyTags(input.tags),
                                  !.currentVersionId = r1.id]],
                    r1.id)

\* The body of the transaction of createVersionForCase.
createVersionForCaseTx(d, caseId, input, createdBy) ==
    LET r1 == insertVersion(d, caseId, buildSnapshot(d, caseId, input), createdBy)
    IN IF ~r1.ok THEN Fail(r1.d)
       ELSE IF \/ input.suiteId \notin DOMAIN r1.d.suites
               \/ TitleTaken(r1.d, caseId, input.suiteId, input.title)
            THEN Fail(r1.d)
            ELSE Ok([r1.d EXCEPT !.cases[caseId] =
                        [@ EXCEPT !.suiteId = input.suiteId,
                                  !.title = input.title,
                                  !.qualityAttribute = Default(input.qualityAttribute, <<>>),
                                  !.categoryLarge = Default(input.categoryLarge, <<>>),
                                  !.categoryMedium = Default(input.categoryMedium, <<>>),
                                  !.preconditions = Default(input.preconditions, <<>>),
                                  !.priority = Default(input.priority, <<"Medium">>),
                                  !.tags = JSONstringifyTags(input.tags),
                                  !.currentVersionId = r1.id]],
                    r1.id)

createVersionForCase(d, caseId, input, createdBy) ==
    Transaction(d, createVersionForCaseTx(d, caseId, input, createdBy))

(***************************************************************************)
(* ON DELETE actions of the schema, applied to the rows that reference the *)
(* deleted ones.                                                           *)
(***************************************************************************)
\* Rows of test_results / test_step_results owned by the run-cases rcIds.
ResultsOfRunCases(d, rcIds) == {r \in DOMAIN d.results : d.results[r].runCaseId \in rcIds}

\* DELETE FROM test_run_cases WHERE id IN rcIds, with its cascades.
DeleteRunCases(d, rcIds) ==
    LET resIds == ResultsOfRunCases(d, rcIds)
    IN [d EXCEPT !.stepResults = {sr \in @ : sr.resultId \notin resIds},
                 !.results = Without(@, resIds),
                 !.runCases = Without(@, rcIds)]

\* DELETE FROM test_cases WHERE id IN caseIds, with its cascades
\* (test_run_cases.case_id, test_case_versions.case_id, test_steps.case_version_id).
DeleteCases(d, caseIds) ==
    LET d1 == DeleteRunCases(d, {rc \in DOMAIN d.runCases : d.runCases[rc].caseId \in caseIds})
        verIds == {v \in DOMAIN d1.versions : d1.versions[v].caseId \in caseIds}
    IN [d1 EXCEPT !.steps = {st \in @ : st.caseVersionId \notin verIds},
                  !.versions = Without(@, verIds),
                  !.cases = Without(@, caseIds)]

\* DELETE FROM test_runs WHERE id IN runIds, with its cascades.
DeleteRuns(d, runIds) ==
    LET d1 == DeleteRunCases(d, {rc \in DOMAIN d.runCases : d.runCases[rc].runId \in runIds})
    IN [d1 EXCEPT !.runs = Without(@, runIds)]

\* deleteCase that leaves the run-cases of the case, and their results, in
\* place.
deleteCaseOrphanRunCases(d, caseId) ==
    LET verIds == {v \in DOMAIN d.versions : d.versions[v].caseId = caseId}
    IN [d EXCEPT !.steps = {st \in @ : st.caseVersionId \notin verIds},
                 !.versions = Without(@, verIds),
                 !.cases = Without(@, {caseId})]

deleteCase(d, caseId) ==
    LET rcIds == {rc \in DOMAIN d.runCases : d.runCases[rc].caseId = caseId}
        resIds == ResultsOfRunCases(d, rcIds)
        d1 == [d EXCEPT !.stepResults = {sr \in @ : sr.resultId \notin resIds}]
        d2 == [d1 EXCEPT !.results = Without(@, resIds)]
        d3 == DeleteRunCases(d2, rcIds)
    IN DeleteCases(d3, {caseId})

\* DELETE FROM suites WHERE id IN suiteIds: the cases of the suites cascade,
\* parent_suite_id of their child suites is SET NULL.
DeleteSuites(d, suiteIds) ==
    LET d1 == DeleteCases(d, {c \in DOMAIN d.cases : d.cases[c].suiteId \in suiteIds})
        kept == Without(d1.suites, suiteIds)
    IN [d1 EXCEPT !.suites = [s \in DOMAIN kept |->
                     IF kept[s].parentSuiteId \in suiteIds
                     THEN [kept[s] EXCEPT !.parentSuiteId = NULL]
                     ELSE kept[s]]]

deleteSuite(d, suiteId) == DeleteSuites(d, {suiteId})

\* suiteService part of caseService: createSuite and getOrCreateSuite.
createSuite(d, projectId, name, parentSuiteId) ==
    LET suiteId == d.seq.suites + 1
        row == [projectId |-> projectId, name |-> Trim(name), parentSuiteId |-> parentSuiteId]
    IN IF \/ projectId \notin d.projects
          \/ parentSuiteId # NULL /\ parentSuiteId \notin DOMAIN d.suites
          \/ \E s \in DOMAIN d.suites :
                d.suites[s].projectId = projectId /\ d.suites[s].name = row.name
       THEN Fail(d)
       ELSE Ok([d EXCEPT !.suites = @ @@ (suiteId :> row), !.seq.suites = suiteId], suiteId)

getOrCreateSuite(d, projectId, suiteName) ==
    LET normalized == Trim(suiteName)
        existing == {s \in DOMAIN d.suites :
                       d.suites[s].projectId = projectId /\ d.suites[s].name = normalized}
    IN IF existing # {} THEN Ok(d, CHOOSE s \in existing : TRUE)
       ELSE createSuite(d, projectId, normalized, NULL)

\* A lookup by title alone, in whatever suite.
findCaseByTitle(d, suiteId, title) ==
    {c \in DOMAIN d.cases : d.cases[c].title = title}

\* SELECT id, project_id FROM test_cases WHERE suite_id = ? AND title = ?
findCaseBySuiteAndTitle(d, suiteId, title) ==
    {c \in DOMAIN d.cases : d.cases[c].suiteId = suiteId /\ d.cases[c].title = title}

\* INSERT INTO projects; the table is the set of its ids, the name column
\* is not represented.
createProject(d, name) ==
    LET projectId == d.seq.projects + 1
    IN Ok([d EXCEPT !.projects = @ \cup {projectId}, !.seq.projects = projectId], projectId)

deleteProject(d, projectId) ==
    LET d1 == DeleteRuns(d, {r \in DOMAIN d.runs : d.runs[r].projectId = projectId})
        d2 == DeleteCases(d1, {c \in DOMAIN d1.cases : d1.cases[c].projectId = projectId})
        suiteIds == {s \in DOMAIN d2.suites : d2.suites[s].projectId = projectId}
        d3 == DeleteSuites(d2, suiteIds)
    IN [d3 EXCEPT !.projects = @ \ {projectId}]

\* authService.deleteUser: created_by / executed_by are ON DELETE SET NULL.
deleteUser(d, userId) ==
    [d EXCEPT !.users = @ \ {userId},
              !.versions = [v \in DOMAIN @ |->
                   IF @[v].createdBy = userId THEN [@[v] EXCEPT !.createdBy = NULL] ELSE @[v]],
              !.runs = [r \in DOMAIN @ |->
                   IF @[r].createdBy = userId THEN [@[r] EXCEPT !.createdBy = NULL] ELSE @[r]],
              !.results = [r \in DOMAIN @ |->
                   IF @[r].executedBy = userId THEN [@[r] EXCEPT !.executedBy = NULL] ELSE @[r]],
              !.importLogs = [l \in DOMAIN @ |->
                   IF @[l].createdBy = userId THEN [@[l] EXCEPT !.createdBy = NULL] ELSE @[l]]]

(***************************************************************************)
(* caseService reads                                                       *)
(***************************************************************************)
\* A nullable result is a sequence of length 0 (null) or 1.
\* SELECT ... FROM test_steps WHERE case_version_id = ? ORDER BY step_no ASC
RECURSIVE StepRowsDescending(_)
StepRowsDescending(rows) ==
    IF rows = {} THEN <<>>
    ELSE LET x == CHOOSE y \in rows : \A z \in rows : z.stepNo <= y.stepNo
         IN <<[stepNo |-> x.stepNo, action |-> x.action,
               inputData |-> x.inputData, expectedResult |-> x.expectedResult]>>
            \o StepRowsDescending(rows \ {x})

RECURSIVE StepRowsAscending(_)
StepRowsAscending(rows) ==
    IF rows = {} THEN <<>>
    ELSE LET x == CHOOSE y \in rows : \A z \in rows : y.stepNo <= z.stepNo
         IN <<[stepNo |-> x.stepNo, action |-> x.action,
               inputData |-> x.inputData, expectedResult |-> x.expectedResult]>>
            \o StepRowsAscending(rows \ {x})

getVersionSteps(d, caseVersionId) ==
    StepRowsAscending({st \in d.steps : st.caseVersionId = caseVersionId})

getCaseVersion(d, caseVersionId) ==
    IF caseVersionId \notin DOMAIN d.versions THEN <<>>
    ELSE LET row == d.versions[caseVersionId]
         IN <<[id |-> caseVersionId, caseId |-> row.caseId, versionNo |-> row.versionNo,
               snapshot |-> JSONparse(row.snapshot), createdBy |-> row.createdBy]>>

\* JSON.stringify of a value read from a parsed snapshot or from a row of
\* test_steps (a string, a finite number, null, an array of strings): two
\* such values have the same text exactly when they are the same value.
JsonText(value) == [json |-> value]

\* new Map(steps.map((step) => [step.stepNo, step])): the entries in the
\* order of the first insertion of their key, each key with the value set
\* last.
RECURSIVE NewStepMap(_)
NewStepMap(stepList) ==
    IF Len(stepList) = 0 THEN <<>>
    ELSE LET init == NewStepMap(SubSeq(stepList, 1, Len(stepList) - 1))
             step == stepList[Len(stepList)]
         IN IF \E i \in DOMAIN init : init[i].stepNo = step.stepNo
            THEN [i \in DOMAIN init |->
                    IF init[i].stepNo = step.stepNo THEN step ELSE init[i]]
            ELSE Append(init, step)

\* A lookup that finds no key: the steps of two versions are never matched.
MapHasNever(map, stepNo) == FALSE

MapHas(map, stepNo) == \E i \in DOMAIN map : map[i].stepNo = stepNo

MapGet(map, stepNo) == map[CHOOSE i \in DOMAIN map : map[i].stepNo = stepNo]

\* The loop with fromStep !== toStep for its comparison: two objects read
\* separately are never the same object.
RECURSIVE ChangedStepsByIdentity(_, _)
ChangedStepsByIdentity(fromMap, toEntries) ==
    IF Len(toEntries) = 0 THEN <<>>
    ELSE LET toStep == Head(toEntries)
             rest == ChangedStepsByIdentity(fromMap, Tail(toEntries))
         IN IF ~MapHas(fromMap, toStep.stepNo) THEN rest
            ELSE <<[stepNo |-> toStep.stepNo, from |-> MapGet(fromMap, toStep.stepNo),
                    to |-> toStep]>> \o rest

\* The loop over toMap.entries() that fills stepsChanged.
RECURSIVE ChangedSteps(_, _)
ChangedSteps(fromMap, toEntries) ==
    IF Len(toEntries) = 0 THEN <<>>
    ELSE LET toStep == Head(toEntries)
             rest == ChangedSteps(fromMap, Tail(toEntries))
         IN IF ~MapHas(fromMap, toStep.stepNo) THEN rest
            ELSE LET fromStep == MapGet(fromMap, toStep.stepNo)
                 IN IF JsonText(fromStep) # JsonText(toStep)
                    THEN <<[stepNo |-> toStep.stepNo, from |-> fromStep, to |-> toStep]>>
                         \o rest
                    ELSE rest

\* The list of compared fields without the tags.
fieldsToCompareWithoutTags == <<"title", "qualityAttribute", "categoryLarge", "categoryMedium",
                                "preconditions", "priority", "suiteId">>

fieldsToCompare == <<"title", "qualityAttribute", "categoryLarge", "categoryMedium",
                     "preconditions", "priority", "tags", "suiteId">>

\* The diff whose second loop runs over toMap again instead of fromMap.
DiffResultSecondLoopOverTo(d, fromVersion, toVersion) ==
    LET fromSteps == getVersionSteps(d, fromVersion.id)
        toSteps == getVersionSteps(d, toVersion.id)
        entries == [i \in DOMAIN fieldsToCompare |->
                      [field |-> fieldsToCompare[i],
                       from |-> fromVersion.snapshot[fieldsToCompare[i]],
                       to |-> toVersion.snapshot[fieldsToCompare[i]]]]
        fields == SelectSeq(entries, LAMBDA entry : JsonText(entry.from) # JsonText(entry.to))
        fromMap == NewStepMap(fromSteps)
        toMap == NewStepMap(toSteps)
        stepsAdded == SelectSeq(toMap, LAMBDA step : ~MapHas(fromMap, step.stepNo))
        stepsChanged == ChangedSteps(fromMap, toMap)
        stepsRemoved == SelectSeq(toMap, LAMBDA step : ~MapHas(fromMap, step.stepNo))
    IN [ok |-> TRUE,
        fields |-> fields,
        stepsAdded |-> SortByStepNo(stepsAdded),
        stepsRemoved |-> SortByStepNo(stepsRemoved),
        stepsChanged |-> SortByStepNo(stepsChanged)]

\* The part of diffCaseVersions after both versions were found.
DiffResult(d, fromVersion, toVersion) ==
    LET fromSteps == getVersionSteps(d, fromVersion.id)
        toSteps == getVersionSteps(d, toVersion.id)
        entries == [i \in DOMAIN fieldsToCompare |->
                      [field |-> fieldsToCompare[i],
                       from |-> fromVersion.snapshot[fieldsToCompare[i]],
                       to |-> toVersion.snapshot[fieldsToCompare[i]]]]
        fields == SelectSeq(entries, LAMBDA entry : JsonText(entry.from) # JsonText(entry.to))
        fromMap == NewStepMap(fromSteps)
        toMap == NewStepMap(toSteps)
        stepsAdded == SelectSeq(toMap, LAMBDA step : ~MapHas(fromMap, step.stepNo))
        stepsChanged == ChangedSteps(fromMap, toMap)
        stepsRemoved == SelectSeq(fromMap, LAMBDA step : ~MapHas(toMap, step.stepNo))
    IN [ok |-> TRUE,
        fields |-> fields,
        stepsAdded |-> SortByStepNo(stepsAdded),
        stepsRemoved |-> SortByStepNo(stepsRemoved),
        stepsChanged |-> SortByStepNo(stepsChanged)]

\* diffCaseVersions that answers with an empty diff when an id resolves to
\* no version.
diffCaseVersionsSilent(d, fromVersionId, toVersionId) ==
    LET fromVersion == getCaseVersion(d, fromVersionId)
        toVersion == getCaseVersion(d, toVersionId)
    IN IF fromVersion = <<>> \/ toVersion = <<>>
       THEN [ok |-> TRUE, fields |-> <<>>, stepsAdded |-> <<>>, stepsRemoved |-> <<>>,
             stepsChanged |-> <<>>]
       ELSE DiffResult(d, fromVersion[1], toVersion[1])

\* A throw is [ok |-> FALSE, error |-> the message].
diffCaseVersions(d, fromVersionId, toVersionId) ==
    LET fromVersion == getCaseVersion(d, fromVersionId)
        toVersion == getCaseVersion(d, toVersionId)
    IN IF fromVersion = <<>> \/ toVersion = <<>>
       THEN [ok |-> FALSE, error |-> "version_not_found"]
       ELSE DiffResult(d, fromVersion[1], toVersion[1])

\* ids of a set in ascending order (ORDER BY id ASC / rowid order).
RECURSIVE Ascending(_)
Ascending(S) == IF S = {} THEN <<>>
                ELSE LET m == CHOOSE x \in S : \A y \in S : x <= y
                     IN <<m>> \o Ascending(S \ {m})

\* SELECT id, version_no, created_by FROM test_case_versions
\* WHERE case_id = ? ORDER BY version_no DESC
RECURSIVE VersionsDescending(_, _)
VersionsDescending(d, ids) ==
    IF ids = {} THEN <<>>
    ELSE LET v == CHOOSE x \in ids : \A y \in ids : d.versions[y].versionNo <= d.versions[x].versionNo
         IN <<[id |-> v, versionNo |-> d.versions[v].versionNo,
               createdBy |-> d.versions[v].createdBy]>>
            \o VersionsDescending(d, ids \ {v})

getCaseDetail(d, caseId) ==
    IF caseId \notin DOMAIN d.cases THEN <<>>
    ELSE LET row == d.cases[caseId]
             cur == IF row.currentVersionId # NULL THEN getCaseVersion(d, row.currentVersionId) ELSE <<>>
         IN <<[id |-> caseId,
               case |-> [row EXCEPT !.tags = JSONparse(@)],
               currentVersion |-> [i \in DOMAIN cur |->
                   [cur[i] EXCEPT !.snapshot.steps = getVersionSteps(d, cur[i].id)]],
               versions |-> VersionsDescending(d, VersionsOf(d, caseId))]>>

(***************************************************************************)
(* runService                                                              *)
(***************************************************************************)
\* The loop with the last two arguments of insertRunCase.run swapped: the
\* head version id goes to case_id and the case id to case_version_id.
RECURSIVE InsertRunCasesSwapped(_, _, _)
InsertRunCasesSwapped(d, runId, caseRows) ==
    IF Len(caseRows) = 0 THEN Ok(d, runId)
    ELSE LET c == Head(caseRows)
             versionId == d.cases[c].currentVersionId
             rcId == d.seq.runCases + 1
             row == [runId |-> runId, caseId |-> versionId, caseVersionId |-> c,
                     status |-> "untested"]
         IN IF versionId = NULL THEN InsertRunCasesSwapped(d, runId, Tail(caseRows))
            ELSE IF \/ versionId \notin DOMAIN d.cases
                    \/ c \notin DOMAIN d.versions
                    \/ \E rc \in DOMAIN d.runCases :
                          d.runCases[rc].runId = runId /\ d.runCases[rc].caseId = versionId
                 THEN Fail(d)
                 ELSE InsertRunCasesSwapped([d EXCEPT !.runCases = @ @@ (rcId :> row),
                                                      !.seq.runCases = rcId],
                                            runId, Tail(caseRows))

\* The loop of insertRunCase.run over caseRows (rows in ascending id order).
RECURSIVE InsertRunCases(_, _, _)
InsertRunCases(d, runId, caseRows) ==
    IF Len(caseRows) = 0 THEN Ok(d, runId)
    ELSE LET c == Head(caseRows)
             versionId == d.cases[c].currentVersionId
             rcId == d.seq.runCases + 1
             row == [runId |-> runId, caseId |-> c, caseVersionId |-> versionId,
                     status |-> "untested"]
         IN IF versionId = NULL THEN InsertRunCases(d, runId, Tail(caseRows))
            ELSE IF \/ versionId \notin DOMAIN d.versions
                    \/ \E rc \in DOMAIN d.runCases :
                          d.runCases[rc].runId = runId /\ d.runCases[rc].caseId = c
                 THEN Fail(d)
                 ELSE InsertRunCases([d EXCEPT !.runCases = @ @@ (rcId :> row),
                                               !.seq.runCases = rcId],
                                     runId, Tail(caseRows))

\* createRun whose SELECT has no project_id = ? condition.
createRunTxAnyProject(d, params) ==
    LET runId == d.seq.runs + 1
        row == [projectId |-> params.projectId, name |-> params.name,
                releaseVersion |-> Default(params.releaseVersion, <<>>),
                createdBy |-> params.createdBy, status |-> "open"]
    IN IF params.projectId \notin d.projects \/ ~UserRefOk(d, params.createdBy)
       THEN Fail(d)
       ELSE LET d1 == [d EXCEPT !.runs = @ @@ (runId :> row), !.seq.runs = runId]
                caseRows == Ascending({c \in DOMAIN d1.cases : c \in Range(params.caseIds)})
            IN InsertRunCases(d1, runId, caseRows)

\* createRun that inserts a run-case for each requested id, repeated or not.
createRunTxPerRequestedId(d, params) ==
    LET runId == d.seq.runs + 1
        row == [projectId |-> params.projectId, name |-> params.name,
                releaseVersion |-> Default(params.releaseVersion, <<>>),
                createdBy |-> params.createdBy, status |-> "open"]
    IN IF params.projectId \notin d.projects \/ ~UserRefOk(d, params.createdBy)
       THEN Fail(d)
       ELSE LET d1 == [d EXCEPT !.runs = @ @@ (runId :> row), !.seq.runs = runId]
                caseRows == SelectSeq(params.caseIds,
                               LAMBDA c : /\ c \in DOMAIN d1.cases
                                          /\ d1.cases[c].projectId = params.projectId)
            IN InsertRunCases(d1, runId, caseRows)

\* The body of the transaction of createRun.
createRunTx(d, params) ==
    LET runId == d.seq.runs + 1
        row == [projectId |-> params.projectId, name |-> params.name,
                releaseVersion |-> Default(params.releaseVersion, <<>>),
                createdBy |-> params.createdBy, status |-> "open"]
    IN IF params.projectId \notin d.projects \/ ~UserRefOk(d, params.createdBy)
       THEN Fail(d)
       ELSE LET d1 == [d EXCEPT !.runs = @ @@ (runId :> row), !.seq.runs = runId]
                caseRows == Ascending({c \in DOMAIN d1.cases :
                                /\ d1.cases[c].projectId = params.projectId
                                /\ c \in Range(params.caseIds)})
            IN InsertRunCases(d1, runId, caseRows)

createRun(d, params) == Transaction(d, createRunTx(d, params))

\* updateRunStatus that also resets the run-cases of the run.
updateRunStatusResetsRunCases(d, runId, status) ==
    IF runId \in DOMAIN d.runs
    THEN [d EXCEPT !.runs[runId].status = status,
                   !.runCases = [rc \in DOMAIN @ |->
                                   IF @[rc].runId = runId
                                   THEN [@[rc] EXCEPT !.status = "untested"]
                                   ELSE @[rc]]]
    ELSE d

updateRunStatus(d, runId, status) ==
    IF runId \in DOMAIN d.runs THEN [d EXCEPT !.runs[runId].status = status] ELSE d

updateRun(d, runId, params) ==
    IF runId \in DOMAIN d.runs
    THEN [d EXCEPT !.runs[runId].name = Trim(params.name),
                   !.runs[runId].releaseVersion = Trim(params.releaseVersion)]
    ELSE d

\* deleteRun whose DELETE has no WHERE id = ?.
deleteRunEveryRun(d, runId) == DeleteRuns(d, DOMAIN d.runs)

deleteRun(d, runId) == DeleteRuns(d, {runId})

\* The result row of a run-case, if any (run_case_id is UNIQUE).
ResultOf(d, runCaseId) == {r \in DOMAIN d.results : d.results[r].runCaseId = runCaseId}

getRunDetail(d, runId) ==
    IF runId \notin DOMAIN d.runs THEN <<>>
    ELSE LET rcIds == Ascending({rc \in DOMAIN d.runCases :
                          /\ d.runCases[rc].runId = runId
                          /\ d.runCases[rc].caseId \in DOMAIN d.cases
                          /\ d.runCases[rc].caseVersionId \in DOMAIN d.versions})
         IN <<[run |-> [id |-> runId] @@ d.runs[runId],
               cases |-> [i \in DOMAIN rcIds |->
                  LET rc == d.runCases[rcIds[i]]
                  IN [id |-> rcIds[i], runId |-> rc.runId, caseId |-> rc.caseId,
                      caseVersionId |-> rc.caseVersionId, status |-> rc.status,
                      caseTitle |-> d.cases[rc.caseId].title,
                      priority |-> d.cases[rc.caseId].priority,
                      versionNo |-> d.versions[rc.caseVersionId].versionNo,
                      resultComment |->
                          LET res == Ascending(ResultOf(d, rcIds[i]))
                          IN [j \in DOMAIN res |-> d.results[res[j]].comment]]]]>>

\* SELECT step_no, status, comment FROM test_step_results
\* WHERE result_id = ? ORDER BY step_no ASC
RECURSIVE StepResultsAscending(_)
StepResultsAscending(rows) ==
    IF rows = {} THEN <<>>
    ELSE LET x == CHOOSE y \in rows : \A z \in rows : y.stepNo <= z.stepNo
         IN <<[stepNo |-> x.stepNo, status |-> x.status, comment |-> x.comment]>>
            \o StepResultsAscending(rows \ {x})

\* The variant that reads the snapshot of the case's head, not of the bound
\* version.
getRunCaseExecutionOfHead(d, runCaseId) ==
    IF runCaseId \notin DOMAIN d.runCases THEN <<>>
    ELSE LET rc == d.runCases[runCaseId]
             snapshot == getCaseVersion(d, d.cases[rc.caseId].currentVersionId)
             res == Ascending(ResultOf(d, runCaseId))
         IN IF snapshot = <<>> THEN <<>>
            ELSE <<[runCase |-> [id |-> runCaseId, runId |-> rc.runId, caseId |-> rc.caseId,
                                 caseVersionId |-> rc.caseVersionId, status |-> rc.status],
                    snapshot |-> snapshot[1],
                    result |-> <<>>]>>

getRunCaseExecution(d, runCaseId) ==
    IF runCaseId \notin DOMAIN d.runCases THEN <<>>
    ELSE LET rc == d.runCases[runCaseId]
             snapshot == getCaseVersion(d, rc.caseVersionId)
             res == Ascending(ResultOf(d, runCaseId))
         IN IF snapshot = <<>> THEN <<>>
            ELSE <<[runCase |-> [id |-> runCaseId, runId |-> rc.runId, caseId |-> rc.caseId,
                                 caseVersionId |-> rc.caseVersionId, status |-> rc.status],
                    snapshot |-> snapshot[1],
                    result |-> [j \in DOMAIN res |->
                        [id |-> res[j],
                         overallStatus |-> d.results[res[j]].overallStatus,
                         comment |-> d.results[res[j]].comment,
                         executedBy |-> d.results[res[j]].executedBy,
                         stepResults |-> StepResultsAscending(
                             {sr \in d.stepResults : sr.resultId = res[j]})]]]>>

\* The loop as INSERT OR IGNORE would run it: a row that violates NOT NULL
\* or UNIQUE is skipped and the loop goes on.
RECURSIVE InsertStepResultsOrIgnore(_, _, _)
InsertStepResultsOrIgnore(d, resultId, stepList) ==
    IF Len(stepList) = 0 THEN Ok(d, resultId)
    ELSE LET st == Head(stepList)
             row == [resultId |-> resultId, stepNo |-> st.stepNo, status |-> st.status,
                     comment |-> Default(st.comment, <<>>)]
         IN IF \/ st.stepNo = NaN
               \/ \E r \in d.stepResults : r.resultId = resultId /\ r.stepNo = st.stepNo
            THEN InsertStepResultsOrIgnore(d, resultId, Tail(stepList))
            ELSE InsertStepResultsOrIgnore([d EXCEPT !.stepResults = @ \cup {row}],
                                           resultId, Tail(stepList))

\* The loop of insertStep.run over params.stepResults; stops at the first
\* row that violates NOT NULL(step_no) or UNIQUE(result_id, step_no).
RECURSIVE InsertStepResults(_, _, _)
InsertStepResults(d, resultId, stepList) ==
    IF Len(stepList) = 0 THEN Ok(d, resultId)
    ELSE LET st == Head(stepList)
             row == [resultId |-> resultId, stepNo |-> st.stepNo, status |-> st.status,
                     comment |-> Default(st.comment, <<>>)]
         IN IF \/ st.stepNo = NaN
               \/ \E r \in d.stepResults : r.resultId = resultId /\ r.stepNo = st.stepNo
            THEN Fail(d)
            ELSE InsertStepResults([d EXCEPT !.stepResults = @ \cup {row}], resultId, Tail(stepList))

\* The two branches of saveRunCaseResult before the step loop.  KeepOld is
\* the upsert without its DELETE FROM test_step_results.
UpsertResultKeepOld(d, params, overallStatus) ==
    LET existing == ResultOf(d, params.runCaseId)
        fields == [runCaseId |-> params.runCaseId, overallStatus |-> overallStatus,
                   comment |-> Default(params.comment, <<>>), executedBy |-> params.executedBy]
    IN IF existing # {}
       THEN LET resultId == CHOOSE r \in existing : TRUE
            IN IF ~UserRefOk(d, params.executedBy) THEN Fail(d)
               ELSE Ok([d EXCEPT !.results[resultId] = fields], resultId)
       ELSE LET resultId == d.seq.results + 1
            IN IF params.runCaseId \notin DOMAIN d.runCases \/ ~UserRefOk(d, params.executedBy)
               THEN Fail(d)
               ELSE Ok([d EXCEPT !.results = @ @@ (resultId :> fields),
                                 !.seq.results = resultId], resultId)

UpsertResult(d, params, overallStatus) ==
    LET existing == ResultOf(d, params.runCaseId)
        fields == [runCaseId |-> params.runCaseId, overallStatus |-> overallStatus,
                   comment |-> Default(params.comment, <<>>), executedBy |-> params.executedBy]
    IN IF existing # {}
       THEN LET resultId == CHOOSE r \in existing : TRUE
            IN IF ~UserRefOk(d, params.executedBy) THEN Fail(d)
               ELSE Ok([d EXCEPT !.results[resultId] = fields,
                                 !.stepResults = {sr \in @ : sr.resultId # resultId}],
                       resultId)
       ELSE LET resultId == d.seq.results + 1
            IN IF params.runCaseId \notin DOMAIN d.runCases \/ ~UserRefOk(d, params.executedBy)
               THEN Fail(d)
               ELSE Ok([d EXCEPT !.results = @ @@ (resultId :> fields),
                                 !.seq.results = resultId], resultId)

\* saveRunCaseResult without its UPDATE test_run_cases SET status.
saveRunCaseResultTxNoStatus(d, params) ==
    LET statuses == [i \in DOMAIN params.stepResults |-> params.stepResults[i].status]
        overallStatus == calcOverallStatus(statuses)
        r1 == UpsertResult(d, params, overallStatus)
    IN IF ~r1.ok THEN Fail(r1.d)
       ELSE LET r2 == InsertStepResults(r1.d, r1.id, params.stepResults)
            IN IF ~r2.ok THEN Fail(r2.d) ELSE Ok(r2.d, r1.id)

\* saveRunCaseResult that refuses a run-case of a run that is not open.
saveRunCaseResultTxOpenOnly(d, params) ==
    LET statuses == [i \in DOMAIN params.stepResults |-> params.stepResults[i].status]
        overallStatus == calcOverallStatus(statuses)
        r1 == UpsertResult(d, params, overallStatus)
    IN IF /\ params.runCaseId \in DOMAIN d.runCases
          /\ d.runs[d.runCases[params.runCaseId].runId].status # "open"
       THEN Fail(d)
       ELSE IF ~r1.ok THEN Fail(r1.d)
       ELSE LET r2 == InsertStepResults(r1.d, r1.id, params.stepResults)
            IN IF ~r2.ok THEN Fail(r2.d)
               ELSE Ok([r2.d EXCEPT !.runCases[params.runCaseId].status = overallStatus], r1.id)

\* The body of the transaction of saveRunCaseResult.
saveRunCaseResultTx(d, params) ==
    LET statuses == [i \in DOMAIN params.stepResults |-> params.stepResults[i].status]
        overallStatus == calcOverallStatus(statuses)
        r1 == UpsertResult(d, params, overallStatus)
    IN IF ~r1.ok THEN Fail(r1.d)
       ELSE LET r2 == InsertStepResults(r1.d, r1.id, params.stepResults)
            IN IF ~r2.ok THEN Fail(r2.d)
               ELSE Ok([r2.d EXCEPT !.runCases[params.runCaseId].status = overallStatus], r1.id)

saveRunCaseResult(d, params) == Transaction(d, saveRunCaseResultTx(d, params))

\* The join without WHERE r.project_id = ?.
RunCasesOfAnyProject(d, projectId) ==
    {rc \in DOMAIN d.runCases : d.runCases[rc].runId \in DOMAIN d.runs}

\* The run-cases of the runs of a project (test_run_cases JOIN test_runs).
RunCasesOfProject(d, projectId) ==
    {rc \in DOMAIN d.runCases :
        /\ d.runCases[rc].runId \in DOMAIN d.runs
        /\ d.runs[d.runCases[rc].runId].projectId = projectId}

\* Math.round of the quotient num / den of two naturals, den > 0: the
\* nearest integer, the greater one of two that are equally near.
MathRound(num, den) == (2 * num + den) \div (2 * den)

reportSummary(d, projectId) ==
    LET cnt(status) == Cardinality({rc \in RunCasesOfProject(d, projectId) :
                                       d.runCases[rc].status = status})
        totals == [status \in StepExecutionStatus |-> cnt(status)]
        totalRunCases == totals["untested"] + totals["pass"] + totals["fail"]
                            + totals["blocked"]
        completionRate ==
            IF totalRunCases # 0
            THEN MathRound((totals["pass"] + totals["fail"] + totals["blocked"]) * 100,
                           totalRunCases)
            ELSE 0
    IN [totalRunCases |-> totalRunCases,
        untested |-> totals["untested"],
        pass |-> totals["pass"],
        fail |-> totals["fail"],
        blocked |-> totals["blocked"],
        completionRate |-> completionRate]

\* ids of a set in descending order (ORDER BY rc.id DESC).
RECURSIVE Descending(_)
Descending(S) == IF S = {} THEN <<>>
                 ELSE LET m == CHOOSE x \in S : \A y \in S : y <= x
                      IN <<m>> \o Descending(S \ {m})

\* The rows of reportFailures for one run-case: one per joined result, or
\* one with the comment '' where the LEFT JOIN finds none.
FailureRows(d, runCaseId) ==
    LET rc == d.runCases[runCaseId]
        res == Ascending(ResultOf(d, runCaseId))
        row(comment) == [runId |-> rc.runId, runName |-> d.runs[rc.runId].name,
                         runCaseId |-> runCaseId, caseId |-> rc.caseId,
                         caseTitle |-> d.cases[rc.caseId].title,
                         priority |-> d.cases[rc.caseId].priority,
                         comment |-> comment]
    IN IF Len(res) = 0 THEN <<row(<<>>)>>
       ELSE [j \in DOMAIN res |-> row(d.results[res[j]].comment)]

RECURSIVE FlatMapFailures(_, _)
FlatMapFailures(d, runCaseIds) ==
    IF Len(runCaseIds) = 0 THEN <<>>
    ELSE FailureRows(d, Head(runCaseIds)) \o FlatMapFailures(d, Tail(runCaseIds))

\* reportFailures with ORDER BY rc.id ASC.
reportFailuresOldestFirst(d, projectId) ==
    FlatMapFailures(d, Ascending({rc \in RunCasesOfProject(d, projectId) :
                                    /\ d.runCases[rc].caseId \in DOMAIN d.cases
                                    /\ d.runCases[rc].status = "fail"}))

reportFailures(d, projectId) ==
    FlatMapFailures(d, Descending({rc \in RunCasesOfProject(d, projectId) :
                                     /\ d.runCases[rc].caseId \in DOMAIN d.cases
                                     /\ d.runCases[rc].status = "fail"}))

\* reportPriority with ORDER BY cnt ASC.
reportPriorityAscending(d, projectId) ==
    LET ofProject == {c \in DOMAIN d.cases : d.cases[c].projectId = projectId}
        groups == {[priority |-> d.cases[c].priority,
                    count |-> Cardinality({c2 \in ofProject :
                                             d.cases[c2].priority = d.cases[c].priority})] :
                     c \in ofProject}
    IN {rows \in [1..Cardinality(groups) -> groups] :
           /\ \A i, j \in DOMAIN rows : i # j => rows[i] # rows[j]
           /\ \A i, j \in DOMAIN rows : i < j => rows[i].count <= rows[j].count}

\* The results reportPriority may return: GROUP BY priority gives one row
\* per priority of the project's cases, and ORDER BY cnt DESC leaves the
\* order of rows with the same count open.
reportPriority(d, projectId) ==
    LET ofProject == {c \in DOMAIN d.cases : d.cases[c].projectId = projectId}
        groups == {[priority |-> d.cases[c].priority,
                    count |-> Cardinality({c2 \in ofProject :
                                             d.cases[c2].priority = d.cases[c].priority})] :
                     c \in ofProject}
    IN {rows \in [1..Cardinality(groups) -> groups] :
           /\ \A i, j \in DOMAIN rows : i # j => rows[i] # rows[j]
           /\ \A i, j \in DOMAIN rows : i < j => rows[i].count >= rows[j].count}

(***************************************************************************)
(* utils/csv and importService.  A CSV file is the sequence of records     *)
(* csv-parse returns for it (columns: true): one function from column name *)
(* to cell text per data line.                                             *)
(***************************************************************************)
CSV_COLUMNS == {"suite", "quality_attribute", "category_large", "category_medium",
                "case_title", "preconditions", "step_no", "test_step", "input_data",
                "expected_result", "priority", "tags"}

\* Number(text) for the cell texts of the model; anything else is NaN.
Number(text) ==
    CASE Trim(text) = <<>> -> 0
      [] Trim(text) = <<"0">> -> 0
      [] Trim(text) = <<"1">> -> 1
      [] Trim(text) = <<"2">> -> 2
      [] OTHER -> NaN

toNumber(value) == LET n == Number(value) IN IF n # NaN THEN n ELSE NaN

\* String(row[field] || "")
Cell(row, field) == IF field \in DOMAIN row THEN row[field] ELSE <<>>

normalizeRecord(record) == [k \in DOMAIN record |-> Trim(record[k])]

\* An absent errorMessage (undefined, SQL NULL) is <<>>, a message is
\* <<text, detail>>.
parseCsvWithValidation(csvText) ==
    LET rows == [i \in DOMAIN csvText |-> normalizeRecord(csvText[i])]
        headerSet == IF Len(rows) > 0 THEN DOMAIN rows[1] ELSE {}
        missingColumns == CSV_COLUMNS \ headerSet
        columnsOk == missingColumns = {}
        required == {"suite", "case_title", "step_no", "test_step", "expected_result"}
        preview == [i \in DOMAIN rows |->
            LET row == rows[i]
                missing == {field \in required : Trim(Cell(row, field)) = <<>>}
                stepNo == Number(Cell(row, "step_no"))
            IN IF missing # {}
               THEN [rowNumber |-> i + 1, row |-> row, status |-> "fail",
                     errorMessage |-> <<"Missing required fields: ", missing>>]
               ELSE IF stepNo = NaN
               THEN [rowNumber |-> i + 1, row |-> row, status |-> "fail",
                     errorMessage |-> <<"step_no must be a number", {}>>]
               ELSE [rowNumber |-> i + 1, row |-> row,
                     status |-> IF columnsOk THEN "success" ELSE "fail",
                     errorMessage |-> IF columnsOk THEN <<>>
                                      ELSE <<"Missing columns: ", missingColumns>>]]
    IN [rows |-> rows, preview |-> preview, columnsOk |-> columnsOk,
        missingColumns |-> missingColumns]

\* A key that keeps suite and title apart, as a pair.
GroupKeyPair(row) == <<Trim(Cell(row, "suite")), Trim(Cell(row, "case_title"))>>

\* The key of the group of a row: the text `${suite}||${title}`.
GroupKey(row) == Trim(Cell(row, "suite")) \o <<"||">> \o Trim(Cell(row, "case_title"))

\* Among the rows that passed, a row fails when its step_no is not a
\* positive integer, and otherwise when another row of its group that
\* passed has the same step_no.
validateGroupedPreviewRows(rows) ==
    [i \in DOMAIN rows |->
        IF rows[i].status # "success" THEN rows[i]
        ELSE LET stepNo == toNumber(Cell(rows[i].row, "step_no"))
             IN IF stepNo = NaN \/ stepNo <= 0
                THEN [rows[i] EXCEPT !.status = "fail",
                         !.errorMessage = <<"step_no must be a positive integer", {}>>]
                ELSE IF \E j \in DOMAIN rows :
                           /\ j # i
                           /\ rows[j].status = "success"
                           /\ GroupKey(rows[j].row) = GroupKey(rows[i].row)
                           /\ toNumber(Cell(rows[j].row, "step_no")) = stepNo
                THEN [rows[i] EXCEPT !.status = "fail",
                         !.errorMessage = <<"duplicate step_no in same suite + case_title group",
                                            {stepNo}>>]
                ELSE rows[i]]

\* rawTags.split(","): the texts between the "," tokens.
RECURSIVE Split(_, _)
Split(text, current) ==
    IF Len(text) = 0 THEN <<current>>
    ELSE IF Head(text) = "," THEN <<current>> \o Split(Tail(text), <<>>)
    ELSE Split(Tail(text), Append(current, Head(text)))

parseTags(rawTags) ==
    LET parts == Split(rawTags, <<>>)
        trimmed == [i \in DOMAIN parts |-> Trim(parts[i])]
    IN SelectSeq(trimmed, LAMBDA item : item # <<>>)

\* Array.from(new Set(list)): the first occurrence of each element, in order.
RECURSIVE ArrayFromSet(_)
ArrayFromSet(list) ==
    IF Len(list) = 0 THEN <<>>
    ELSE LET init == ArrayFromSet(SubSeq(list, 1, Len(list) - 1))
             x == list[Len(list)]
         IN IF x \in Range(init) THEN init ELSE Append(init, x)

RECURSIVE FlatMapTags(_)
FlatMapTags(items) ==
    IF Len(items) = 0 THEN <<>>
    ELSE parseTags(Cell(Head(items).row, "tags")) \o FlatMapTags(Tail(items))

\* The keys of the groups in the order the Map receives them.
GroupKeys(validRows) ==
    ArrayFromSet([i \in DOMAIN validRows |-> GroupKey(validRows[i].row)])

\* INSERT INTO import_log_rows for each of items.
LogRows(d, importLogId, items, status, errorMessage) ==
    [d EXCEPT !.importLogRows = @ \cup
        {[importLogId |-> importLogId, rowNumber |-> items[i].rowNumber,
          status |-> status, errorMessage |-> errorMessage] : i \in DOMAIN items}]

\* One pass of the loop over grouped.values(): the try block and its catch.
\* A throw inside the try leaves what the statements before it wrote (a
\* suite that getOrCreateSuite created) and what the rolled-back transaction
\* of the case function did not.
ImportGroup(d, params, importLogId, items) ==
    LET first == items[1].row
        rs == getOrCreateSuite(d, params.projectId, first.suite)
        title == Trim(first.case_title)
        existing == findCaseBySuiteAndTitle(rs.d, rs.id, title)
        stepList == SortByStepNo([i \in DOMAIN items |->
                       [stepNo |-> toNumber(items[i].row.step_no),
                        action |-> items[i].row.test_step,
                        inputData |-> items[i].row.input_data,
                        expectedResult |-> items[i].row.expected_result]])
        tagList == FlatMapTags(items)
        allTags == ArrayFromSet(SelectSeq([i \in DOMAIN tagList |-> Trim(tagList[i])],
                                          LAMBDA tag : tag # <<>>))
        input == [suiteId |-> rs.id,
                  title |-> title,
                  qualityAttribute |-> first.quality_attribute,
                  categoryLarge |-> first.category_large,
                  categoryMedium |-> first.category_medium,
                  preconditions |-> first.preconditions,
                  priority |-> IF first.priority = <<>> THEN <<"Medium">> ELSE first.priority,
                  tags |-> allTags,
                  steps |-> stepList]
        rc == IF existing # {}
              THEN LET caseId == CHOOSE c \in existing : TRUE
                   IN createVersionForCase(rs.d, caseId,
                         input @@ [projectId |-> rs.d.cases[caseId].projectId],
                         params.userId)
              ELSE createCaseWithVersion(rs.d,
                         input @@ [projectId |-> params.projectId,
                                   createdBy |-> params.userId])
    IN IF ~rs.ok
       THEN [ok |-> FALSE,
             d |-> LogRows(rs.d, importLogId, items, "fail", <<"SqliteError", {}>>)]
       ELSE IF ~rc.ok
       THEN [ok |-> FALSE,
             d |-> LogRows(rc.d, importLogId, items, "fail", <<"SqliteError", {}>>)]
       ELSE [ok |-> TRUE, d |-> LogRows(rc.d, importLogId, items, "success", <<>>)]

\* The loop over grouped.values() were it to end at the first group that
\* fails.
RECURSIVE ImportGroupsStopAtFailure(_, _, _, _)
ImportGroupsStopAtFailure(d, params, importLogId, groups) ==
    IF Len(groups) = 0 THEN [d |-> d, successCount |-> 0, failCount |-> 0]
    ELSE LET g == ImportGroup(d, params, importLogId, Head(groups))
             rest == ImportGroupsStopAtFailure(g.d, params, importLogId, Tail(groups))
             n == Len(Head(groups))
         IN IF ~g.ok THEN [d |-> g.d, successCount |-> 0, failCount |-> n]
            ELSE [d |-> rest.d,
                  successCount |-> rest.successCount + n,
                  failCount |-> rest.failCount]

\* The loop over grouped.values(), counting the rows of the groups that
\* succeeded and failed.
RECURSIVE ImportGroups(_, _, _, _)
ImportGroups(d, params, importLogId, groups) ==
    IF Len(groups) = 0 THEN [d |-> d, successCount |-> 0, failCount |-> 0]
    ELSE LET g == ImportGroup(d, params, importLogId, Head(groups))
             rest == ImportGroups(g.d, params, importLogId, Tail(groups))
             n == Len(Head(groups))
         IN [d |-> rest.d,
             successCount |-> rest.successCount + (IF g.ok THEN n ELSE 0),
             failCount |-> rest.failCount + (IF g.ok THEN 0 ELSE n)]

executeImport(d, params) ==
    LET parsed == parseCsvWithValidation(params.csvText)
        validatedRows == validateGroupedPreviewRows(parsed.preview)
        importLogId == d.seq.importLogs + 1
        logRow == [fileName |-> params.fileName, totalRows |-> Len(validatedRows),
                   successCount |-> 0, failCount |-> 0, createdBy |-> params.userId]
        failedRows == SelectSeq(validatedRows, LAMBDA pr : pr.status = "fail")
        validRows == SelectSeq(validatedRows, LAMBDA pr : pr.status # "fail")
        keys == GroupKeys(validRows)
        grouped == [k \in DOMAIN keys |->
                      SelectSeq(validRows, LAMBDA item : GroupKey(item.row) = keys[k])]
    IN IF ~UserRefOk(d, params.userId) THEN Fail(d)
       ELSE LET d1 == [d EXCEPT !.importLogs = @ @@ (importLogId :> logRow),
                                !.seq.importLogs = importLogId]
                d2 == [d1 EXCEPT !.importLogRows = @ \cup
                          {[importLogId |-> importLogId,
                            rowNumber |-> failedRows[i].rowNumber,
                            status |-> "fail",
                            errorMessage |-> IF failedRows[i].errorMessage = <<>>
                                             THEN <<"Validation failed", {}>>
                                             ELSE failedRows[i].errorMessage]
                             : i \in DOMAIN failedRows}]
                done == ImportGroups(d2, params, importLogId, grouped)
            IN Ok([done.d EXCEPT
                      !.importLogs[importLogId].successCount = done.successCount,
                      !.importLogs[importLogId].failCount = Len(failedRows) + done.failCount],
                  importLogId)

(***************************************************************************)
(* Routes.  A route returns [status, body, r]: the HTTP status, the JSON   *)
(* body and the outcome r of the service call it made (Ok(d, NULL) when it *)
(* made none).  A service call that throws reaches the error middleware,   *)
(* which answers 500.                                                      *)
(***************************************************************************)
Answer(status, body, r) == [status |-> status, body |-> body, r |-> r]

\* The JSON body without any field; its suiteId is written as the NaN
\* that Number(undefined) is.
NoBody == [title |-> UNDEFINED, suiteId |-> NaN, qualityAttribute |-> UNDEFINED,
           categoryLarge |-> UNDEFINED, categoryMedium |-> UNDEFINED,
           preconditions |-> UNDEFINED, priority |-> UNDEFINED, tags |-> UNDEFINED,
           steps |-> UNDEFINED]

\* value || dflt on a text: the empty text is falsy.
OrElse(value, dflt) == IF value = UNDEFINED \/ value = <<>> THEN dflt ELSE value

\* steps: req.body.steps.map(...) of POST and PUT /api/.../cases
bodySteps(stepList) ==
    [i \in DOMAIN stepList |->
       [stepNo |-> stepList[i].stepNo,
        action |-> OrElse(stepList[i].action, <<>>),
        inputData |-> OrElse(stepList[i].inputData, <<>>),
        expectedResult |-> OrElse(stepList[i].expectedResult, <<>>)]]

\* A payload that keeps the title the case has, whatever the body says.
putCasePayloadKeepTitle(detail, body) ==
    [projectId |-> detail.case.projectId,
     suiteId |-> IF body.suiteId = NaN THEN detail.case.suiteId ELSE body.suiteId,
     title |-> detail.case.title,
     qualityAttribute |-> Default(body.qualityAttribute, detail.case.qualityAttribute),
     categoryLarge |-> Default(body.categoryLarge, detail.case.categoryLarge),
     categoryMedium |-> Default(body.categoryMedium, detail.case.categoryMedium),
     preconditions |-> Default(body.preconditions, detail.case.preconditions),
     priority |-> Default(body.priority, detail.case.priority),
     tags |-> Default(body.tags, detail.case.tags),
     steps |-> IF body.steps # UNDEFINED THEN bodySteps(body.steps)
               ELSE IF Len(detail.currentVersion) = 1
                    THEN detail.currentVersion[1].snapshot.steps
                    ELSE <<>>]

\* The payload of PUT /api/cases/:caseId: a field of the body, or of the
\* current case where the body has none.
putCasePayload(detail, body) ==
    [projectId |-> detail.case.projectId,
     suiteId |-> IF body.suiteId = NaN THEN detail.case.suiteId ELSE body.suiteId,
     title |-> Default(body.title, detail.case.title),
     qualityAttribute |-> Default(body.qualityAttribute, detail.case.qualityAttribute),
     categoryLarge |-> Default(body.categoryLarge, detail.case.categoryLarge),
     categoryMedium |-> Default(body.categoryMedium, detail.case.categoryMedium),
     preconditions |-> Default(body.preconditions, detail.case.preconditions),
     priority |-> Default(body.priority, detail.case.priority),
     tags |-> Default(body.tags, detail.case.tags),
     steps |-> IF body.steps # UNDEFINED THEN bodySteps(body.steps)
               ELSE IF Len(detail.currentVersion) = 1
                    THEN detail.currentVersion[1].snapshot.steps
                    ELSE <<>>]

(***************************************************************************)
(* The case screen of the client: the draft it loads from GET              *)
(* /api/cases/:caseId and the body saveCaseDraft sends with PUT.           *)
(***************************************************************************)
\* list.join(",")
RECURSIVE Join(_)
Join(list) ==
    IF Len(list) = 0 THEN <<>>
    ELSE IF Len(list) = 1 THEN list[1]
    ELSE list[1] \o <<",">> \o Join(Tail(list))

\* setCaseDraft({...}) from the snapshot of the current version.
DraftOf(snapshot) ==
    [suiteId |-> snapshot.suiteId, title |-> snapshot.title,
     qualityAttribute |-> snapshot.qualityAttribute,
     categoryLarge |-> snapshot.categoryLarge,
     categoryMedium |-> snapshot.categoryMedium,
     preconditions |-> snapshot.preconditions,
     priority |-> snapshot.priority,
     tags |-> Join(snapshot.tags),
     steps |-> snapshot.steps]

\* The body of api.updateCase in saveCaseDraft.
DraftBody(draft) ==
    [suiteId |-> draft.suiteId, title |-> Trim(draft.title),
     qualityAttribute |-> draft.qualityAttribute,
     categoryLarge |-> draft.categoryLarge,
     categoryMedium |-> draft.categoryMedium,
     preconditions |-> draft.preconditions,
     priority |-> draft.priority,
     tags |-> parseTags(draft.tags),
     steps |-> draft.steps]

\* PUT /api/cases/:caseId
putCase(d, caseId, body, actor) ==
    LET detail == getCaseDetail(d, caseId)
    IN IF Len(detail) = 0 THEN Answer(404, "case_not_found", Ok(d, NULL))
       ELSE LET r == createVersionForCase(d, caseId, putCasePayload(detail[1], body), actor)
            IN IF r.ok THEN Answer(200, r.id, r) ELSE Answer(500, "error", r)

\* POST /api/projects/:projectId/cases
postCase(d, projectId, body, actor) ==
    LET input == [projectId |-> projectId,
                  suiteId |-> body.suiteId,
                  title |-> OrElse(body.title, <<>>),
                  qualityAttribute |-> OrElse(body.qualityAttribute, <<>>),
                  categoryLarge |-> OrElse(body.categoryLarge, <<>>),
                  categoryMedium |-> OrElse(body.categoryMedium, <<>>),
                  preconditions |-> OrElse(body.preconditions, <<>>),
                  priority |-> OrElse(body.priority, <<"Medium">>),
                  tags |-> Default(body.tags, <<>>),
                  steps |-> IF body.steps = UNDEFINED THEN <<>> ELSE bodySteps(body.steps),
                  createdBy |-> actor]
        r == createCaseWithVersion(d, input)
    IN IF r.ok THEN Answer(201, r.id, r) ELSE Answer(500, "error", r)

\* GET /api/cases/:caseId
getCase(d, caseId) ==
    LET detail == getCaseDetail(d, caseId)
    IN IF Len(detail) = 0 THEN Answer(404, "case_not_found", Ok(d, NULL))
       ELSE Answer(200, detail[1], Ok(d, NULL))

\* GET /api/cases/:caseId/diff?fromVersionId=&toVersionId=
getCaseDiff(d, caseId, fromVersionId, toVersionId) ==
    IF fromVersionId = 0 \/ toVersionId = 0
    THEN Answer(400, "from_to_required", Ok(d, NULL))
    ELSE LET diff == diffCaseVersions(d, fromVersionId, toVersionId)
         IN IF diff.ok THEN Answer(200, diff, Ok(d, NULL))
            ELSE Answer(404, diff.error, Ok(d, NULL))

\* DELETE /api/cases/:caseId
deleteCaseRoute(d, caseId) ==
    IF caseId = 0 THEN Answer(400, "case_id_required", Ok(d, NULL))
    ELSE Answer(200, "ok", Ok(deleteCase(d, caseId), NULL))

\* GET /api/runs/:runId
getRun(d, runId) ==
    LET detail == getRunDetail(d, runId)
    IN IF Len(detail) = 0 THEN Answer(404, "run_not_found", Ok(d, NULL))
       ELSE Answer(200, detail[1], Ok(d, NULL))

\* PATCH /api/runs/:runId/status
patchRunStatus(d, runId, status) ==
    IF status # "open" /\ status # "closed" THEN Answer(400, "invalid_status", Ok(d, NULL))
    ELSE Answer(200, "ok", Ok(updateRunStatus(d, runId, status), NULL))

\* PATCH /api/runs/:runId
patchRun(d, runId, body) ==
    LET name == Trim(OrElse(body.name, <<>>))
        releaseVersion == Trim(OrElse(body.releaseVersion, <<>>))
    IN IF runId = 0 \/ name = <<>> THEN Answer(400, "run_and_name_required", Ok(d, NULL))
       ELSE Answer(200, "ok",
                   Ok(updateRun(d, runId, [name |-> name, releaseVersion |-> releaseVersion]),
                      NULL))

\* DELETE /api/runs/:runId
deleteRunRoute(d, runId) ==
    IF runId = 0 THEN Answer(400, "run_id_required", Ok(d, NULL))
    ELSE Answer(200, "ok", Ok(deleteRun(d, runId), NULL))

\* GET /api/run-cases/:runCaseId
getRunCase(d, runCaseId) ==
    LET payload == getRunCaseExecution(d, runCaseId)
    IN IF Len(payload) = 0 THEN Answer(404, "run_case_not_found", Ok(d, NULL))
       ELSE Answer(200, payload[1], Ok(d, NULL))

\* POST /api/run-cases/:runCaseId/result
postResult(d, runCaseId, body, actor) ==
    LET stepList == [i \in DOMAIN body.stepResults |->
                       [stepNo |-> body.stepResults[i].stepNo,
                        status |-> IF body.stepResults[i].status \in StepExecutionStatus
                                   THEN body.stepResults[i].status ELSE "untested",
                        comment |-> OrElse(body.stepResults[i].comment, <<>>)]]
        r == saveRunCaseResult(d, [runCaseId |-> runCaseId, executedBy |-> actor,
                                   comment |-> OrElse(body.comment, <<>>),
                                   stepResults |-> stepList])
    IN IF r.ok THEN Answer(200, r.id, r) ELSE Answer(500, "error", r)

(***************************************************************************)
(* Requests the callers send: a small set of each, chosen so that every    *)
(* branch of the services is taken (unsorted steps, whitespace to trim, a  *)
(* non-numeric stepNo, a duplicate stepNo, an unknown suite or project, an *)
(* absent priority).                                                       *)
(***************************************************************************)
Step(no, action, expected) ==
    [stepNo |-> no, action |-> action, inputData |-> <<>>, expectedResult |-> expected]

StepOpen == Step(1, <<" ", "o">>, <<"k">>)
StepSend == Step(2, <<"s">>, <<"k", " ">>)
StepOpenAgain == Step(1, <<"o">>, <<"n">>)
StepNoNumber == Step(NaN, <<"x">>, <<"k">>)
StepZero == Step(0, <<"z">>, <<" ">>)
StepClose == Step(3, <<"c">>, <<"k">>)

CaseInput(projectId, suiteId, title, priority, tags, stepList) ==
    [projectId |-> projectId, suiteId |-> suiteId, title |-> title,
     qualityAttribute |-> <<>>, categoryLarge |-> UNDEFINED, categoryMedium |-> <<>>,
     preconditions |-> <<>>, priority |-> priority, tags |-> tags, steps |-> stepList]

CaseInputs ==
    { CaseInput(1, 1, <<"Login">>, <<"High">>, <<<<"auth">>>>, <<StepSend, StepOpen, StepClose>>),
      CaseInput(1, 1, <<"Logout">>, UNDEFINED, <<>>, <<StepNoNumber, StepOpenAgain, StepZero, StepSend>>),
      CaseInput(2, 2, <<"Login">>, <<"High">>, <<>>, <<>>),
      CaseInput(1, 1, <<"Login">>, <<"Low">>, <<>>, <<StepOpen, StepOpenAgain>>) }

StepResult(no, status) == [stepNo |-> no, status |-> status, comment |-> UNDEFINED]

ResultInput(comment, stepList) == [comment |-> comment, stepResults |-> stepList]

ResultInputs ==
    { ResultInput(UNDEFINED, <<>>),
      ResultInput(<<"seen">>, <<StepResult(1, "pass"), StepResult(2, "fail")>>),
      ResultInput(<<"twice">>, <<StepResult(1, "pass"), StepResult(1, "blocked")>>),
      ResultInput(<<"typo">>, <<StepResult(1, "untested"), StepResult(NaN, "pass")>>) }

\* A CSV record with every column of CSV_COLUMNS.
CsvRecord(suite, title, stepNo, testStep, tags) ==
    [column \in CSV_COLUMNS |->
        CASE column = "suite" -> suite
          [] column = "case_title" -> title
          [] column = "step_no" -> stepNo
          [] column = "test_step" -> testStep
          [] column = "expected_result" -> <<"k">>
          [] column = "tags" -> tags
          [] OTHER -> <<>>]

\* One case in two rows, out of order, with tags to split and a title to trim.
FileLogin ==
    <<CsvRecord(<<"API">>, <<"Login">>, <<"2">>, <<"s">>, <<"auth", ",", " ", "api">>),
      CsvRecord(<<"API">>, <<" ", "Login">>, <<"1">>, <<"o">>, <<"api", ",">>)>>

\* A case of a suite that does not exist yet, and five rows that fail:
\* step_no 0, step_no not a number, no case_title, and two rows of one case
\* with the same step_no.
FileMixed ==
    <<CsvRecord(<<"UI", " ">>, <<"Login">>, <<"1">>, <<"o">>, <<>>),
      CsvRecord(<<"API">>, <<"Logout">>, <<"0">>, <<"z">>, <<>>),
      CsvRecord(<<"API">>, <<"Logout">>, <<"x">>, <<"z">>, <<>>),
      CsvRecord(<<"API">>, <<>>, <<"1">>, <<"z">>, <<>>),
      CsvRecord(<<"API">>, <<"Logout">>, <<"2">>, <<"o">>, <<>>),
      CsvRecord(<<"API">>, <<"Logout">>, <<"2">>, <<"s">>, <<>>)>>

\* The import requested: one file with the rows of both, into project 1
\* (which may have been deleted by then).
ImportRequests ==
    { [projectId |-> 1, csvText |-> FileLogin \o FileMixed] }

\* The caseIds of POST /api/runs: none, one, two out of order, one twice,
\* one with an id no case has.
RunCaseIds == {<<>>, <<1>>, <<2, 1>>, <<1, 1>>, <<2, MaxCases + 1>>}

RunStatuses == {"open", "closed"}

\* Bodies of PUT /api/cases/:caseId: a new title and nothing else, and a
\* new priority and nothing else.
PutBodies == << [NoBody EXCEPT !.title = <<"Renamed">>],
               [NoBody EXCEPT !.priority = <<"Low">>],
               [NoBody EXCEPT !.title = <<>>] >>

\* Bodies of POST /api/projects/:projectId/cases: a case with a step, a
\* case with the empty title, and a case without a title.
PostBodies == << [NoBody EXCEPT !.suiteId = 1, !.title = <<"Login">>, !.steps = <<StepOpen>>],
                [NoBody EXCEPT !.suiteId = 1, !.title = <<>>, !.steps = <<StepOpen>>],
                [NoBody EXCEPT !.suiteId = 1] >>

\* Bodies of PATCH /api/runs/:runId: a name, and a blank name.
PatchRunBodies == << [name |-> <<"q", " ">>, releaseVersion |-> UNDEFINED],
                    [name |-> <<" ">>, releaseVersion |-> <<"1.0">>] >>

\* The acting user of a request: req.user?.id ?? null.
Actors == IF users = {} THEN {NULL} ELSE users

(***************************************************************************)
(* The state machine.  last records the latest call: its operation,        *)
(* whether it returned (ok) or threw, and whether saveRunCaseResult found  *)
(* a Result row for the run-case (its `if (existing)` branch).             *)
(***************************************************************************)
SetDB(d) ==
    /\ users' = d.users
    /\ projects' = d.projects
    /\ suites' = d.suites
    /\ cases' = d.cases
    /\ versions' = d.versions
    /\ steps' = d.steps
    /\ runs' = d.runs
    /\ runCases' = d.runCases
    /\ results' = d.results
    /\ stepResults' = d.stepResults
    /\ importLogs' = d.importLogs
    /\ importLogRows' = d.importLogRows
    /\ seq' = d.seq

\* The database after the step.
DBNext == [users |-> users', projects |-> projects', suites |-> suites',
           cases |-> cases', versions |-> versions', steps |-> steps',
           runs |-> runs', runCases |-> runCases', results |-> results',
           stepResults |-> stepResults', importLogs |-> importLogs',
           importLogRows |-> importLogRows', seq |-> seq']

(***************************************************************************)
(* authService and the routes under /api/auth.  A session id is the number *)
(* of the randomUUID() call that made it: no two calls give the same id.   *)
(***************************************************************************)
\* SESSION_TTL_MS, seven days, in units of the clock.
SESSION_TTL == 2

\* The users and sessions tables as one value.
AuthDB == [users |-> users, accounts |-> accounts, sessions |-> sessions,
           seq |-> authSeq, now |-> now]

\* The four columns both SELECTs of authService read of a users row.
UserRow(a, userId) ==
    [id |-> userId, username |-> a.accounts[userId].username,
     displayName |-> a.accounts[userId].displayName, role |-> a.accounts[userId].role]

\* SELECT id, username, display_name, role FROM users WHERE username = ?
findUserByUsername(a, username) ==
    LET rows == {u \in a.users : a.accounts[u].username = username}
    IN IF rows = {} THEN <<>> ELSE <<UserRow(a, CHOOSE u \in rows : TRUE)>>

\* user.password: the field of the object findUserByUsername returned, if it
\* has one.
PasswordOf(user) == IF "password" \in DOMAIN user THEN <<user.password>> ELSE <<>>

createUser(a, params) ==
    LET userId == a.seq.users + 1
    IN [a |-> [a EXCEPT !.users = @ \cup {userId},
                        !.accounts = (userId :> [username |-> Trim(params.username),
                                                 displayName |-> Trim(params.displayName),
                                                 role |-> params.role,
                                                 password |-> params.password]) @@ @,
                        !.seq.users = userId],
        id |-> userId]

createSession(a, userId) ==
    LET sessionId == a.seq.sessions + 1
    IN [a |-> [a EXCEPT !.sessions = (sessionId :> [userId |-> userId, createdAt |-> a.now,
                                                    expiresAt |-> a.now + SESSION_TTL]) @@ @,
                        !.seq.sessions = sessionId],
        id |-> sessionId]

deleteSession(a, sessionId) ==
    [a EXCEPT !.sessions = [s \in DOMAIN a.sessions \ {sessionId} |-> a.sessions[s]]]

\* sessions JOIN users WHERE s.id = ? AND s.expires_at > now
getUserBySessionId(a, sessionId) ==
    IF /\ sessionId \in DOMAIN a.sessions
       /\ a.sessions[sessionId].userId \in a.users
       /\ a.sessions[sessionId].expiresAt > a.now
    THEN <<UserRow(a, a.sessions[sessionId].userId)>>
    ELSE <<>>

\* What a route of /api/auth answers: the status, the body, the session id
\* of the Set-Cookie header (NULL: none, or the cookie is cleared) and the
\* tables it leaves.
AuthAnswer(status, body, sid, a) == [status |-> status, body |-> body, sid |-> sid, a |-> a]

\* POST /api/auth/login
login(a, body) ==
    LET username == Trim(OrElse(body.username, <<>>))
        password == OrElse(body.password, <<>>)
        user == findUserByUsername(a, username)
    IN IF username = <<>> \/ password = <<>> THEN AuthAnswer(400, <<>>, NULL, a)
       ELSE IF Len(user) = 0 \/ PasswordOf(user[1]) # <<password>>
            THEN AuthAnswer(401, <<>>, NULL, a)
       ELSE LET r == createSession(a, user[1].id)
            IN AuthAnswer(200, user, r.id, r.a)

\* POST /api/auth/register
register(a, body) ==
    LET username == Trim(OrElse(body.username, <<>>))
        displayName == Trim(OrElse(body.displayName, <<>>))
        password == OrElse(body.password, <<>>)
    IN IF username = <<>> \/ displayName = <<>> \/ password = <<>>
       THEN AuthAnswer(400, <<>>, NULL, a)
       ELSE IF Len(findUserByUsername(a, username)) > 0 THEN AuthAnswer(409, <<>>, NULL, a)
       ELSE LET u == createUser(a, [username |-> username, displayName |-> displayName,
                                    role |-> "tester", password |-> password])
                r == createSession(u.a, u.id)
            IN AuthAnswer(200, <<UserRow(r.a, u.id)>>, r.id, r.a)

\* POST /api/auth/logout behind authMiddleware and requireAuth; sid is the
\* cookie tmt_sid, NULL when the request has none.
logout(a, sid) ==
    IF sid = NULL \/ Len(getUserBySessionId(a, sid)) = 0 THEN AuthAnswer(401, <<>>, NULL, a)
    ELSE AuthAnswer(200, <<>>, NULL, deleteSession(a, sid))

\* GET /api/auth/me behind authMiddleware and requireAuth.
me(a, sid) ==
    IF sid = NULL \/ Len(getUserBySessionId(a, sid)) = 0 THEN AuthAnswer(401, <<>>, NULL, a)
    ELSE AuthAnswer(200, getUserBySessionId(a, sid), NULL, a)

NoResponse == [op |-> "none"]

Call(op, r, existing) ==
    /\ SetDB(r.d)
    /\ last' = [op |-> op, ok |-> r.ok, existing |-> existing]
    /\ response' = NoResponse
    /\ UNCHANGED <<calcVars, clientVars, authVars>>

\* The migrated database with the first rows of the seed: one user, one
\* project and its suite "API"; no case, run or import yet.
InitDB ==
    /\ users = {1}
    /\ projects = {1}
    /\ suites = (1 :> [projectId |-> 1, name |-> <<"API">>, parentSuiteId |-> NULL])
    /\ cases = <<>>
    /\ versions = <<>>
    /\ steps = {}
    /\ runs = <<>>
    /\ runCases = <<>>
    /\ results = <<>>
    /\ stepResults = {}
    /\ importLogs = <<>>
    /\ importLogRows = {}
    /\ seq = [projects |-> 1, suites |-> 1, cases |-> 0, versions |-> 0, runs |-> 0, runCases |-> 0,
              results |-> 0, importLogs |-> 0]
    /\ last = [op |-> "init", ok |-> TRUE, existing |-> FALSE]

InitCalc ==
    /\ listA = <<>>
    /\ listB = <<>>
    /\ overallA = calcOverallStatus(listA)
    /\ overallB = calcOverallStatus(listB)

\* The two case screens.
Editors == {1, 2}

\* No case screen is open.
InitClient ==
    editors = [e \in Editors |-> [pc |-> "idle", caseId |-> NULL, versionNo |-> 0,
                                  draft |-> NoBody]]

\* The seeded account admin; nobody is logged in.
InitAuth ==
    /\ accounts = (1 :> [username |-> <<"admin">>, displayName |-> <<"Admin">>,
                         role |-> "admin", password |-> <<"admin1234">>])
    /\ sessions = <<>>
    /\ authSeq = [users |-> 1, sessions |-> 0]
    /\ now = 0

Init == InitDB /\ InitCalc /\ InitClient /\ InitAuth /\ response = NoResponse

CreateCaseWithVersion ==
    /\ seq.cases < MaxCases
    /\ seq.versions < MaxVersions
    /\ \E input \in CaseInputs : \E actor \in Actors :
          Call("createCaseWithVersion",
               createCaseWithVersion(DB, input @@ [createdBy |-> actor]), FALSE)

CreateVersionForCase ==
    /\ seq.versions < MaxVersions
    /\ \E caseId \in 1..MaxCases : \E input \in CaseInputs : \E actor \in Actors :
          Call("createVersionForCase", createVersionForCase(DB, caseId, input, actor), FALSE)

DeleteCase ==
    \E caseId \in 1..MaxCases :
       Call("deleteCase", Ok(deleteCase(DB, caseId), caseId), FALSE)

DeleteSuite ==
    \E suiteId \in DOMAIN suites :
       Call("deleteSuite", Ok(deleteSuite(DB, suiteId), suiteId), FALSE)

DeleteProject ==
    \E projectId \in projects :
       Call("deleteProject", Ok(deleteProject(DB, projectId), projectId), FALSE)

DeleteUser ==
    \E userId \in users :
       Call("deleteUser", Ok(deleteUser(DB, userId), userId), FALSE)

CreateRunCall(projectId, caseIds, actor) ==
    Call("createRun",
         createRun(DB, [projectId |-> projectId, name |-> <<"r">>,
                        releaseVersion |-> UNDEFINED, createdBy |-> actor,
                        caseIds |-> caseIds]),
         FALSE)

CreateRun ==
    /\ seq.runs < MaxRuns
    /\ \E projectId \in {1, 2} : \E caseIds \in RunCaseIds : \E actor \in Actors :
          CreateRunCall(projectId, caseIds, actor)

\* createRun where a run may already exist.
CreateRunBinding ==
    /\ seq.runs < MaxRunsBinding
    /\ \E caseIds \in RunCaseIds : \E actor \in Actors :
          CreateRunCall(1, caseIds, actor)

UpdateRunStatus ==
    \E runId \in 1..MaxRuns : \E status \in RunStatuses :
       Call("updateRunStatus", Ok(updateRunStatus(DB, runId, status), runId), FALSE)

UpdateRun ==
    \E runId \in 1..MaxRuns :
       Call("updateRun",
            Ok(updateRun(DB, runId, [name |-> <<"q", " ">>, releaseVersion |-> <<" ", "1.0">>]), runId), FALSE)

DeleteRun ==
    \E runId \in 1..MaxRuns :
       Call("deleteRun", Ok(deleteRun(DB, runId), runId), FALSE)

SaveRunCaseResultCall(runCaseId, input, actor) ==
    Call("saveRunCaseResult",
         saveRunCaseResult(DB, [runCaseId |-> runCaseId, executedBy |-> actor,
                                comment |-> input.comment,
                                stepResults |-> input.stepResults]),
         ResultOf(DB, runCaseId) # {})

SaveRunCaseResult ==
    \E runCaseId \in 1..(seq.runCases + 1) : \E input \in ResultInputs : \E actor \in Actors :
       /\ seq.results < MaxResults \/ ResultOf(DB, runCaseId) # {}
       /\ SaveRunCaseResultCall(runCaseId, input, actor)

\* POST /api/import/execute.  The bounds stop an import that would add a
\* row beyond them.
\* Two rows of one case after a row of another: a row without test_step, a
\* row with step_no 0, two rows with the same step_no, and one sound row.
FileLogout ==
    <<CsvRecord(<<"API">>, <<"Logout">>, <<"1">>, <<>>, <<>>),
      CsvRecord(<<"API">>, <<"Logout">>, <<"0">>, <<"z">>, <<>>),
      CsvRecord(<<"API">>, <<"Logout">>, <<"2">>, <<"o">>, <<>>),
      CsvRecord(<<"API">>, <<"Logout">>, <<"2">>, <<"s">>, <<>>),
      CsvRecord(<<"API">>, <<"Logout">>, <<"1">>, <<"c">>, <<"api">>)>>

\* Two cases whose suite and title differ but read the same once joined by
\* "||": suite "API||v2" with title "Login", suite "API" with title
\* "v2||Login".
FileJoined ==
    <<CsvRecord(<<"API", "||", "v2">>, <<"Login">>, <<"1">>, <<"o">>, <<>>),
      CsvRecord(<<"API">>, <<"v2", "||", "Login">>, <<"2">>, <<"s">>, <<>>)>>

\* The files a user uploads, by name.
ImportFiles ==
    <<[fileName |-> "login.csv", csvText |-> FileLogin],
      [fileName |-> "logout.csv", csvText |-> FileLogout],
      [fileName |-> "joined.csv", csvText |-> FileJoined],
      [fileName |-> "both.csv", csvText |-> FileLogin \o FileLogout]>>

ExecuteImport ==
    /\ seq.importLogs < MaxImports
    /\ \E request \in ImportRequests : \E actor \in Actors :
          \E r \in {executeImport(DB, [projectId |-> request.projectId,
                                      fileName |-> "import.csv",
                                      csvText |-> request.csvText, userId |-> actor])} :
             /\ r.d.seq.suites <= MaxSuites
             /\ r.d.seq.cases <= MaxCases
             /\ r.d.seq.versions <= MaxVersions
             /\ Call("executeImport", r, FALSE)

Next ==
    \/ CreateCaseWithVersion
    \/ CreateVersionForCase
    \/ DeleteCase
    \/ DeleteSuite
    \/ DeleteProject
    \/ DeleteUser
    \/ CreateRun
    \/ UpdateRunStatus
    \/ UpdateRun
    \/ DeleteRun
    \/ SaveRunCaseResult

Spec == Init /\ [][Next]_vars

\* The store with imports.
NextImport == Next \/ ExecuteImport

SpecImport == Init /\ [][NextImport]_vars

\* POST /api/projects/:projectId/import/execute with one of the files, as
\* often as MaxImportsTwice allows.
ExecuteImportFile ==
    /\ seq.importLogs < MaxImportsTwice
    /\ \E i \in DOMAIN ImportFiles : \E actor \in Actors :
          \E r \in {executeImport(DB, [projectId |-> 1,
                                      fileName |-> ImportFiles[i].fileName,
                                      csvText |-> ImportFiles[i].csvText,
                                      userId |-> actor])} :
             /\ r.d.seq.suites <= MaxSuites
             /\ r.d.seq.cases <= MaxCases
             /\ r.d.seq.versions <= MaxVersions
             /\ Call("executeImport", r, FALSE)

\* Files imported one after the other, the same one twice or two of them,
\* into a store whose cases are also created and deleted by hand and whose
\* project may be gone.
NextImportTwice ==
    \/ ExecuteImportFile
    \/ CreateCaseWithVersion
    \/ DeleteCase
    \/ DeleteProject

SpecImportTwice == Init /\ [][NextImportTwice]_vars

\* The operations that act while run-cases exist and delete none of them,
\* with room for a second run.
NextBinding ==
    \/ CreateCaseWithVersion
    \/ CreateVersionForCase
    \/ CreateRunBinding
    \/ UpdateRunStatus
    \/ UpdateRun
    \/ SaveRunCaseResult
    \/ ExecuteImport

SpecBinding == Init /\ [][NextBinding]_vars

\* saveRunCaseResult where a result may already exist on another run-case.
SaveRunCaseResultHistory ==
    \E runCaseId \in 1..(seq.runCases + 1) : \E input \in ResultInputs : \E actor \in Actors :
       /\ seq.results < MaxResultsHistory \/ ResultOf(DB, runCaseId) # {}
       /\ SaveRunCaseResultCall(runCaseId, input, actor)

\* DELETE /api/runs/:runId for any run there is or was.
DeleteRunHistory ==
    \E runId \in 1..MaxRunsBinding :
       Call("deleteRun", Ok(deleteRun(DB, runId), runId), FALSE)

\* The history of two runs over the same cases, and the deletions that
\* remove parts of it.
NextHistory ==
    \/ CreateCaseWithVersion
    \/ CreateVersionForCase
    \/ CreateRunBinding
    \/ SaveRunCaseResultHistory
    \/ DeleteCase
    \/ DeleteRunHistory

SpecHistory == Init /\ [][NextHistory]_vars

\* A request answered by a route: the database the service call left, and
\* the status and body sent.
\* What a user types into the form of a case screen: a field and its new
\* text.
EditorEdits ==
    <<[field |-> "title", value |-> <<"Renamed">>],
      [field |-> "priority", value |-> <<"Low">>],
      [field |-> "tags", value |-> <<"ui", ",", " ", "api">>]>>

Respond(op, answer) ==
    /\ SetDB(answer.r.d)
    /\ last' = [op |-> op, ok |-> answer.r.ok, existing |-> FALSE]
    /\ response' = [op |-> op, status |-> answer.status, body |-> answer.body]
    /\ UNCHANGED <<calcVars, clientVars, authVars>>

\* A route answers a request that a case screen sent.
Answered(op, answer) ==
    /\ SetDB(answer.r.d)
    /\ last' = [op |-> op, ok |-> answer.r.ok, existing |-> FALSE]
    /\ response' = [op |-> op, status |-> answer.status, body |-> answer.body]
    /\ UNCHANGED <<calcVars, authVars>>

\* An editor selects a case: the screen loads it with GET /api/cases/:caseId
\* and fills the draft from the snapshot of its current version; the editor
\* then changes one field of the form.
EditorOpen ==
    \E e \in Editors : \E caseId \in 1..MaxCases : \E k \in DOMAIN EditorEdits :
       LET answer == getCase(DB, caseId)
           loaded == answer.status = 200 /\ Len(answer.body.currentVersion) = 1
       IN /\ editors[e].pc = "idle"
          /\ Answered("getCase", answer)
          /\ editors' =
                IF loaded
                THEN [editors EXCEPT ![e] =
                        [pc |-> "read", caseId |-> caseId,
                         versionNo |-> answer.body.currentVersion[1].versionNo,
                         draft |-> [DraftOf(answer.body.currentVersion[1].snapshot)
                                       EXCEPT ![EditorEdits[k].field] = EditorEdits[k].value]]]
                ELSE editors

\* saveCaseDraft: the screen sends the whole draft with PUT
\* /api/cases/:caseId, unless its title is blank or it has no step.
EditorSave ==
    \E e \in Editors : \E actor \in Actors :
       /\ editors[e].pc = "read"
       /\ Trim(editors[e].draft.title) # <<>>
       /\ Len(editors[e].draft.steps) > 0
       /\ seq.versions < MaxVersions
       /\ Answered("putCase",
                   putCase(DB, editors[e].caseId, DraftBody(editors[e].draft), actor))
       /\ editors' = [editors EXCEPT ![e].pc = "saved"]

\* Two editors at their case screens over the cases of the store.
NextEditors ==
    \/ CreateCaseWithVersion
    \/ EditorOpen
    \/ EditorSave

SpecEditors == Init /\ [][NextEditors]_vars

PutCase ==
    /\ seq.versions < MaxVersions
    /\ \E caseId \in 1..MaxCases : \E i \in DOMAIN PutBodies : \E actor \in Actors :
          Respond("putCase", putCase(DB, caseId, PutBodies[i], actor))

\* GET /api/reports/:projectId/summary
ReportSummary ==
    /\ \E projectId \in 1..MaxProjects :
          response' = [op |-> "reportSummary", projectId |-> projectId,
                       summary |-> reportSummary(DB, projectId)]
    /\ UNCHANGED <<dbVars, calcVars, clientVars, authVars>>

\* GET /api/reports/:projectId/failures
ReportFailures ==
    /\ \E projectId \in 1..MaxProjects :
          response' = [op |-> "reportFailures", projectId |-> projectId,
                       failures |-> reportFailures(DB, projectId)]
    /\ UNCHANGED <<dbVars, calcVars, clientVars, authVars>>

\* GET /api/reports/:projectId/priority
ReportPriority ==
    /\ \E projectId \in 1..MaxProjects : \E rows \in reportPriority(DB, projectId) :
          response' = [op |-> "reportPriority", projectId |-> projectId,
                       priorities |-> rows]
    /\ UNCHANGED <<dbVars, calcVars, clientVars, authVars>>

\* createRun in either project, where a run may already exist.
CreateRunReports ==
    /\ seq.runs < MaxRunsBinding
    /\ \E projectId \in 1..MaxProjects : \E caseIds \in {<<1>>, <<2, 1>>} :
          \E actor \in Actors : CreateRunCall(projectId, caseIds, actor)

PostCase ==
    /\ seq.cases < MaxCases
    /\ seq.versions < MaxVersions
    /\ \E i \in DOMAIN PostBodies : \E actor \in Actors :
          Respond("postCase", postCase(DB, 1, PostBodies[i], actor))

GetCase ==
    \E caseId \in 1..MaxCases : Respond("getCase", getCase(DB, caseId))

DeleteCaseRoute ==
    \E caseId \in 1..MaxCases : Respond("deleteCase", deleteCaseRoute(DB, caseId))

GetRun ==
    \E runId \in 1..MaxRuns : Respond("getRun", getRun(DB, runId))

PatchRunStatus ==
    \E runId \in 1..MaxRuns : \E status \in RunStatuses \cup {"done"} :
       Respond("patchRunStatus", patchRunStatus(DB, runId, status))

PatchRun ==
    \E runId \in 1..MaxRuns : \E i \in DOMAIN PatchRunBodies :
       Respond("patchRun", patchRun(DB, runId, PatchRunBodies[i]))

DeleteRunRoute ==
    \E runId \in 1..MaxRuns : Respond("deleteRun", deleteRunRoute(DB, runId))

GetRunCase ==
    \E runCaseId \in 1..(seq.runCases + 1) :
       Respond("getRunCase", getRunCase(DB, runCaseId))

PostResult ==
    \E runCaseId \in 1..(seq.runCases + 1) : \E input \in ResultInputs : \E actor \in Actors :
       /\ seq.results < MaxResults \/ ResultOf(DB, runCaseId) # {}
       /\ Respond("postResult", postResult(DB, runCaseId, input, actor))

\* The requests of a client to the routes for cases, runs and run-cases.
NextRoutes ==
    \/ PostCase
    \/ PutCase
    \/ GetCase
    \/ DeleteCaseRoute
    \/ CreateRun
    \/ GetRun
    \/ PatchRunStatus
    \/ PatchRun
    \/ DeleteRunRoute
    \/ GetRunCase
    \/ PostResult

SpecRoutes == Init /\ [][NextRoutes]_vars

\* GET /api/cases/:caseId/diff for the ids of versions there are, were or
\* may come to be.
DiffCaseVersions ==
    /\ \E fromVersionId \in 1..(MaxVersions + 1) : \E toVersionId \in 1..(MaxVersions + 1) :
          response' = [op |-> "diffCaseVersions",
                       fromVersionId |-> fromVersionId, toVersionId |-> toVersionId,
                       diff |-> diffCaseVersions(DB, fromVersionId, toVersionId)]
    /\ UNCHANGED <<dbVars, calcVars, clientVars, authVars>>

\* The diff as the case screen asks for it, with the case in the path.
GetCaseDiff ==
    /\ \E caseId \in 1..MaxCases :
       \E fromVersionId \in 0..MaxVersions : \E toVersionId \in 0..MaxVersions :
          response' = [op |-> "getCaseDiff", caseId |-> caseId,
                       fromVersionId |-> fromVersionId, toVersionId |-> toVersionId,
                       answer |-> getCaseDiff(DB, caseId, fromVersionId, toVersionId)]
    /\ UNCHANGED <<dbVars, calcVars, clientVars, authVars>>

\* The bodies of POST /api/auth/login: the seeded account and the one that
\* registers, with the password stored, another one and none; a name to
\* trim; a name nobody has.
LoginNames == <<<<"admin">>, <<" ", "admin">>, <<"neo">>, <<"qa9">>>>

LoginPasswords == <<<<"admin1234">>, <<"neo-pw">>, <<"guess">>, UNDEFINED>>

LoginBody(i, j) == [username |-> LoginNames[i], password |-> LoginPasswords[j]]

\* The bodies of POST /api/auth/register.
RegisterBodies ==
    { [username |-> <<"neo">>, displayName |-> <<"Neo">>, password |-> <<"neo-pw">>],
      [username |-> <<"trin">>, displayName |-> <<"Trin">>, password |-> <<"guess">>],
      [username |-> <<"admin">>, displayName |-> <<"Me">>, password |-> <<"guess">>],
      [username |-> <<"neo">>, displayName |-> <<" ">>, password |-> <<"neo-pw">>] }

\* A route of /api/auth answers.
AuthRespond(op, answer) ==
    /\ users' = answer.a.users
    /\ accounts' = answer.a.accounts
    /\ sessions' = answer.a.sessions
    /\ authSeq' = answer.a.seq
    /\ response' = [op |-> op, status |-> answer.status, body |-> answer.body,
                    sid |-> answer.sid]
    /\ UNCHANGED <<projects, suites, cases, versions, steps, runs, runCases, results,
                   stepResults, importLogs, importLogRows, seq, last, calcVars,
                   clientVars, now>>

Login ==
    \E i \in DOMAIN LoginNames : \E j \in DOMAIN LoginPasswords :
       /\ authSeq.sessions < MaxSessions
       /\ AuthRespond("login", login(AuthDB, LoginBody(i, j)))

Register ==
    \E body \in RegisterBodies :
       /\ authSeq.users < MaxUsers
       /\ authSeq.sessions < MaxSessions
       /\ AuthRespond("register", register(AuthDB, body))

Logout ==
    \E sid \in 0..MaxSessions : AuthRespond("logout", logout(AuthDB, sid))

Me ==
    \E sid \in 0..MaxSessions : AuthRespond("me", me(AuthDB, sid))

\* Time passes.
Tick ==
    /\ now < MaxNow
    /\ now' = now + 1
    /\ UNCHANGED <<dbVars, calcVars, readVars, clientVars, accounts, sessions, authSeq>>

\* People register, log in, use their session and log out, as time passes.
NextAuth ==
    \/ Login
    \/ Register
    \/ Logout
    \/ Me
    \/ Tick

SpecAuth == Init /\ [][NextAuth]_vars

\* Cases and their versions, and the diffs asked of the service and of the
\* route.
NextDiffRoute ==
    \/ CreateCaseWithVersion
    \/ CreateVersionForCase
    \/ DiffCaseVersions
    \/ GetCaseDiff

SpecDiffRoute == Init /\ [][NextDiffRoute]_vars

\* Versions of cases that come and go, and the diffs between them.
NextDiff ==
    \/ CreateCaseWithVersion
    \/ CreateVersionForCase
    \/ DeleteCase
    \/ ExecuteImport
    \/ PutCase
    \/ DiffCaseVersions

SpecDiff == Init /\ [][NextDiff]_vars

CreateProject ==
    /\ seq.projects < MaxProjects
    /\ Call("createProject", createProject(DB, <<"P", " ">>), FALSE)

CreateSuite ==
    /\ seq.suites < MaxSuites
    /\ \E projectId \in {1, 2} :
          Call("createSuite", createSuite(DB, projectId, <<"UI", " ">>, NULL), FALSE)

\* Cases and runs of two projects.
NextProjects ==
    \/ CreateProject
    \/ CreateSuite
    \/ CreateCaseWithVersion
    \/ CreateVersionForCase
    \/ CreateRun
    \/ DeleteCase
    \/ DeleteProject

SpecProjects == Init /\ [][NextProjects]_vars

\* Runs of two projects, the results saved on their run-cases, and the
\* summary read in between.
NextSummary ==
    \/ CreateProject
    \/ CreateSuite
    \/ CreateCaseWithVersion
    \/ CreateRunReports
    \/ SaveRunCaseResultHistory
    \/ ReportSummary

SpecSummary == Init /\ [][NextSummary]_vars

\* Two runs over the same cases, results saved and saved again, cases and
\* runs deleted, and the list of failures read in between.
NextFailures ==
    \/ CreateCaseWithVersion
    \/ CreateRunBinding
    \/ SaveRunCaseResultHistory
    \/ DeleteCase
    \/ DeleteRunHistory
    \/ ReportFailures

SpecFailures == Init /\ [][NextFailures]_vars

\* createCaseWithVersion where a third case may be created: the requests
\* of CaseInputs and one more of the same suite and priority as the first.
CreateCasePriority ==
    /\ seq.cases < MaxCasesPriority
    /\ seq.versions < MaxVersions
    /\ \E input \in CaseInputs \cup {CaseInput(1, 1, <<"Reset">>, <<"High">>, <<>>, <<>>)} :
          \E actor \in Actors :
             Call("createCaseWithVersion",
                  createCaseWithVersion(DB, input @@ [createdBy |-> actor]), FALSE)

\* Cases of two projects, created, edited and deleted, and the breakdown
\* by priority read in between.
NextPriority ==
    \/ CreateProject
    \/ CreateSuite
    \/ CreateCasePriority
    \/ CreateVersionForCase
    \/ DeleteCase
    \/ ReportPriority

SpecPriority == Init /\ [][NextPriority]_vars

(***************************************************************************)
(* The overall-status derivation on its own: two step-status lists are     *)
(* built one status at a time, and each is run through calcOverallStatus   *)
(* as saveRunCaseResult does with the statuses of its stepResults.         *)
(***************************************************************************)
DeriveA ==
    /\ Len(listA) < MaxLen
    /\ \E status \in StepExecutionStatus :
          /\ listA' = Append(listA, status)
          /\ overallA' = calcOverallStatus(listA')
    /\ UNCHANGED <<dbVars, readVars, clientVars, authVars, listB, overallB>>

DeriveB ==
    /\ Len(listB) < MaxLen
    /\ \E status \in StepExecutionStatus :
          /\ listB' = Append(listB, status)
          /\ overallB' = calcOverallStatus(listB')
    /\ UNCHANGED <<dbVars, readVars, clientVars, authVars, listA, overallA>>

NextCalc == DeriveA \/ DeriveB

SpecCalc == Init /\ [][NextCalc]_vars

(***************************************************************************)
(* Claims on the overall-status derivation (checked under SpecCalc).       *)
(***************************************************************************)
\* C8: for every list of step statuses the derived overall status is:
\* untested if the list is empty; else fail if any status is fail; else
\* blocked if any is blocked; else pass if all are pass; else untested if all
\* are untested; else blocked.  In particular [pass,fail] gives fail,
\* [pass,pass] pass, [] untested, [pass,untested] blocked, [blocked,pass] blocked.
C8_OverallStatusRule ==
    LET present == Range(listA)
        expected == CASE listA = <<>> -> "untested"
                      [] listA # <<>> /\ "fail" \in present -> "fail"
                      [] listA # <<>> /\ "fail" \notin present /\ "blocked" \in present -> "blocked"
                      [] listA # <<>> /\ present = {"pass"} -> "pass"
                      [] listA # <<>> /\ present = {"untested"} -> "untested"
                      [] listA # <<>> /\ present = {"pass", "untested"} -> "blocked"
    IN /\ overallA = expected
       /\ listA = <<"pass", "fail">> => overallA = "fail"
       /\ listA = <<"pass", "pass">> => overallA = "pass"
       /\ listA = <<>> => overallA = "untested"
       /\ listA = <<"pass", "untested">> => overallA = "blocked"
       /\ listA = <<"blocked", "pass">> => overallA = "blocked"

C8_Witness ==
    /\ listA = <<"pass", "untested">>
    /\ overallA = "blocked"

\* C9: the derivation is order-independent: two step-status lists with the
\* same set of distinct statuses (in particular two permutations of one list)
\* derive the same overall status.
C9_OrderIndependent ==
    Range(listA) = Range(listB) => overallA = overallB

C9_Witness ==
    /\ listA = <<"pass", "fail">>
    /\ listB = <<"fail", "pass", "pass">>
    /\ overallA = "fail"
    /\ overallB = "fail"

(***************************************************************************)
(* Claims on the store (checked under Spec).                               *)
(***************************************************************************)
\* The version numbers of a case.
VersionNos(d, caseId) == {d.versions[v].versionNo : v \in VersionsOf(d, caseId)}

\* The rows of test_steps of a version.
StepRowsOf(d, versionId) == {st \in d.steps : st.caseVersionId = versionId}

\* The id of the version a case's head pointer names.
HeadVersion(d, caseId) == d.cases[caseId].currentVersionId

\* C1: for every RunCase, no operation (an edit of the bound case, a result
\* save, a run update or status change, an import, the creation of another
\* run) changes its caseVersionId while the RunCase exists,
\* and the value it holds is the one createRun wrote: the head version of
\* the case at the time of the createRun call.
C1_BindingPermanent ==
    [][/\ \A rc \in DOMAIN runCases :
             rc \in DOMAIN runCases' =>
                runCases'[rc].caseVersionId = runCases[rc].caseVersionId
       /\ \A rc \in (DOMAIN runCases') \ (DOMAIN runCases) :
             /\ last'.op = "createRun"
             /\ runCases'[rc].caseId \in DOMAIN cases
             /\ runCases'[rc].caseVersionId = HeadVersion(DB, runCases'[rc].caseId)]_vars

C1_Witness ==
    /\ last.op = "createRun"
    /\ last.ok
    /\ DOMAIN importLogs # {}
    /\ \E a \in DOMAIN runCases : \E b \in DOMAIN runCases :
          /\ runCases[a].runId # runCases[b].runId
          /\ runCases[a].caseId = runCases[b].caseId
          /\ runCases[a].caseVersionId \in DOMAIN versions
          /\ runCases[a].caseVersionId # HeadVersion(DB, runCases[a].caseId)
          /\ runCases[b].caseVersionId = HeadVersion(DB, runCases[b].caseId)

\* C2: a run-case created while its case's head is version k keeps showing
\* version k through getRunCaseExecution however often the case is edited
\* afterwards: the versionNo returned is k and the steps returned are exactly
\* the steps of version k.
C2_ExecutionShowsBoundVersion ==
    [][/\ \A rc \in (DOMAIN runCases') \ (DOMAIN runCases) :
             LET head == HeadVersion(DB, runCases'[rc].caseId)
                 after == getRunCaseExecution(DBNext, rc)
             IN /\ after # <<>>
                /\ after[1].snapshot.versionNo = versions[head].versionNo
                /\ after[1].snapshot.snapshot.steps = getVersionSteps(DB, head)
       /\ \A rc \in (DOMAIN runCases') \cap (DOMAIN runCases) :
             LET before == getRunCaseExecution(DB, rc)
                 after == getRunCaseExecution(DBNext, rc)
             IN /\ before # <<>>
                /\ after # <<>>
                /\ after[1].snapshot.versionNo = before[1].snapshot.versionNo
                /\ after[1].snapshot.snapshot.steps = before[1].snapshot.snapshot.steps
                /\ after[1].snapshot.snapshot.steps =
                      getVersionSteps(DBNext, runCases'[rc].caseVersionId)]_vars

C2_Witness ==
    \E rc \in DOMAIN runCases :
       LET shown == getRunCaseExecution(DB, rc)
           head == HeadVersion(DB, runCases[rc].caseId)
       IN /\ shown # <<>>
          /\ shown[1].snapshot.versionNo = 1
          /\ versions[head].versionNo = 3
          /\ shown[1].snapshot.snapshot.steps # getVersionSteps(DB, head)

\* C3 (as stated): an edit of a case (createVersionForCase) leaves the result
\* of getRunDetail identical for every existing run: each run-case's
\* caseVersionId, versionNo, caseTitle, priority, status and comment.
C3_EditLeavesRunDetail ==
    [][last'.op = "createVersionForCase" =>
          \A r \in DOMAIN runs : getRunDetail(DBNext, r) = getRunDetail(DB, r)]_vars

\* C4: for every case the set of its version numbers is exactly 1..n with n
\* the number of its versions: a new case has {1}; a successful
\* createVersionForCase adds exactly max + 1 to one case and nothing to the
\* others; a failed call and every other operation (deletions of other cases
\* included) leave the numbers of each surviving case as they were.
C4_VersionNosDense ==
    /\ [](\A c \in DOMAIN cases :
             /\ VersionNos(DB, c) = 1..Cardinality(VersionsOf(DB, c))
             /\ VersionsOf(DB, c) # {})
    /\ [][/\ \A c \in (DOMAIN cases') \ (DOMAIN cases) : VersionNos(DBNext, c) = {1}
          /\ \A c \in (DOMAIN cases') \cap (DOMAIN cases) :
                \/ VersionNos(DBNext, c) = VersionNos(DB, c)
                \/ /\ last'.op \in {"createVersionForCase", "executeImport"}
                   /\ last'.ok
                   /\ VersionNos(DBNext, c) =
                         VersionNos(DB, c) \cup {Max(VersionNos(DB, c)) + 1}
          /\ ~last'.ok => versions' = versions
          /\ (last'.op = "createVersionForCase" /\ last'.ok) =>
                /\ Cardinality(DOMAIN versions') = Cardinality(DOMAIN versions) + 1
                /\ \E c \in DOMAIN cases :
                      /\ VersionNos(DBNext, c) # VersionNos(DB, c)
                      /\ \A o \in (DOMAIN cases) \ {c} :
                            VersionNos(DBNext, o) = VersionNos(DB, o)]_vars

C4_Witness ==
    /\ last.op = "createVersionForCase"
    /\ last.ok
    /\ \E c \in DOMAIN cases : VersionNos(DB, c) = {1, 2}
    /\ seq.cases = 2
    /\ Cardinality(DOMAIN cases) = 1

\* C5: in every state the head pointer of a case names the version of that
\* case with the greatest versionNo, and getCaseDetail lists every version
\* of the case and shows the head as current; after every successful
\* createCaseWithVersion or createVersionForCase the head of the case is the
\* version just created and every earlier version still exists.
C5_HeadIsNewest ==
    /\ [](\A c \in DOMAIN cases :
             LET head == HeadVersion(DB, c)
                 detail == getCaseDetail(DB, c)
             IN /\ head \in VersionsOf(DB, c)
                /\ versions[head].versionNo = Max(VersionNos(DB, c))
                /\ detail # <<>>
                /\ {detail[1].versions[i].id : i \in DOMAIN detail[1].versions}
                      = VersionsOf(DB, c)
                /\ Len(detail[1].versions) = Cardinality(VersionsOf(DB, c))
                /\ detail[1].currentVersion # <<>>
                /\ detail[1].currentVersion[1].id = head)
    /\ [][(last'.ok /\ last'.op \in {"createCaseWithVersion", "createVersionForCase"}) =>
             /\ DOMAIN versions \subseteq DOMAIN versions'
             /\ \E c \in DOMAIN cases' :
                   LET head == HeadVersion(DBNext, c)
                       earlier == IF c \in DOMAIN cases THEN VersionsOf(DB, c) ELSE {}
                   IN /\ head \notin DOMAIN versions
                      /\ VersionsOf(DBNext, c) = earlier \cup {head}
                      /\ \A v \in earlier :
                            versions'[v].versionNo < versions'[head].versionNo]_vars

C5_Witness ==
    /\ last.op = "createVersionForCase"
    /\ last.ok
    /\ \E c \in DOMAIN cases :
          /\ Len(getCaseDetail(DB, c)[1].versions) = 2
          /\ versions[HeadVersion(DB, c)].versionNo = 2
          /\ HeadVersion(DB, c) = seq.versions

C7_AllOrNothing ==
    [][(/\ ~last'.ok
        /\ last'.op \in {"createCaseWithVersion", "createVersionForCase",
                         "createRun", "saveRunCaseResult"}) =>
          <<cases, versions, steps, runs, runCases, results, stepResults>>'
             = <<cases, versions, steps, runs, runCases, results, stepResults>>]_vars

C7_Witness ==
    /\ last.op = "saveRunCaseResult"
    /\ ~last.ok
    /\ last.existing
    /\ \E r \in DOMAIN results :
          /\ results[r].comment = <<"seen">>
          /\ Cardinality({sr \in stepResults : sr.resultId = r}) = 2

\* C10: there is at most one result per run-case; a successful
\* saveRunCaseResult on a run-case that has a result keeps the id of that
\* result, and after every successful save the result holds the overall
\* status derived from the submitted statuses, the submitted comment and
\* the executor, and its step results are exactly the submitted ones.
C10_ResultUpsert ==
    /\ [](\A rc \in DOMAIN runCases : Cardinality(ResultOf(DB, rc)) <= 1)
    /\ [][\A rc \in DOMAIN runCases : \A input \in ResultInputs : \A actor \in Actors :
             (SaveRunCaseResultCall(rc, input, actor) /\ last'.ok) =>
                LET statuses == [i \in DOMAIN input.stepResults |->
                                    input.stepResults[i].status]
                    shown == getRunCaseExecution(DBNext, rc)
                IN /\ ResultOf(DB, rc) # {} => ResultOf(DBNext, rc) = ResultOf(DB, rc)
                   /\ Cardinality(DOMAIN results') =
                         Cardinality(DOMAIN results) + (IF ResultOf(DB, rc) = {} THEN 1 ELSE 0)
                   /\ shown # <<>>
                   /\ Len(shown[1].result) = 1
                   /\ shown[1].result[1].overallStatus = calcOverallStatus(statuses)
                   /\ shown[1].result[1].comment = Default(input.comment, <<>>)
                   /\ shown[1].result[1].executedBy = actor
                   /\ Len(shown[1].result[1].stepResults) = Len(input.stepResults)
                   /\ {sr \in stepResults' : sr.resultId = shown[1].result[1].id} =
                         {[resultId |-> shown[1].result[1].id,
                           stepNo |-> input.stepResults[i].stepNo,
                           status |-> input.stepResults[i].status,
                           comment |-> <<>>] : i \in DOMAIN input.stepResults}]_vars

C10_Witness ==
    /\ last.op = "saveRunCaseResult"
    /\ last.ok
    /\ last.existing
    /\ \E r \in DOMAIN results :
          /\ results[r].comment = <<>>
          /\ {sr \in stepResults : sr.resultId = r} = {}

\* C11: in every state the status of a run-case is the overallStatus of its
\* result when it has one and untested when it has none, and the status of
\* a run-case that stays changes only in a step of saveRunCaseResult.
C11_StatusMirrorsResult ==
    /\ [](\A rc \in DOMAIN runCases :
             runCases[rc].status =
                IF ResultOf(DB, rc) = {} THEN "untested"
                ELSE results[CHOOSE r \in ResultOf(DB, rc) : TRUE].overallStatus)
    /\ [][\A rc \in (DOMAIN runCases) \cap (DOMAIN runCases') :
             runCases'[rc].status # runCases[rc].status =>
                last'.op = "saveRunCaseResult" /\ last'.ok]_vars

C11_Witness ==
    /\ last.op = "saveRunCaseResult"
    /\ last.ok
    /\ last.existing
    /\ \E rc \in DOMAIN runCases :
          /\ runCases[rc].status = "fail"
          /\ \E r \in ResultOf(DB, rc) : results[r].overallStatus = "fail"

\* C12: a createRun call for an existing project succeeds whatever ids it
\* is given; it adds one run, with status open, and for each requested id
\* of a case of that project with a head version exactly one run-case, with
\* status untested and bound to the head version of that moment; other
\* requested ids add no run-case, and the run-cases there were stay as they
\* were.
C12_CreateRunResolvesCases ==
    [][\A projectId \in {1, 2} : \A caseIds \in RunCaseIds : \A actor \in Actors :
          CreateRunCall(projectId, caseIds, actor) =>
             LET runId == seq.runs + 1
                 resolved == {c \in Range(caseIds) :
                                /\ c \in DOMAIN cases
                                /\ cases[c].projectId = projectId
                                /\ cases[c].currentVersionId # NULL}
                 added == (DOMAIN runCases') \ (DOMAIN runCases)
             IN /\ last'.ok = (projectId \in projects)
                /\ last'.ok =>
                      /\ DOMAIN runs' = (DOMAIN runs) \cup {runId}
                      /\ runId \notin DOMAIN runs
                      /\ runs'[runId].status = "open"
                      /\ runs'[runId].projectId = projectId
                      /\ \A rc \in DOMAIN runCases : rc \in DOMAIN runCases'
                                                      /\ runCases'[rc] = runCases[rc]
                      /\ Cardinality(added) = Cardinality(resolved)
                      /\ {runCases'[rc].caseId : rc \in added} = resolved
                      /\ \A rc \in added :
                            /\ runCases'[rc].runId = runId
                            /\ runCases'[rc].status = "untested"
                            /\ runCases'[rc].caseVersionId =
                                  cases[runCases'[rc].caseId].currentVersionId]_vars

\* A run of project 2 holding the case of project 2 alone while project 1
\* has a case: every request that yields it (<<2, 1>> or <<2, 3>>) names an
\* id that resolves to no run-case.
C12_Witness ==
    /\ last.op = "createRun"
    /\ last.ok
    /\ DOMAIN cases = {1, 2}
    /\ cases[1].projectId = 1
    /\ cases[2].projectId = 2
    /\ \E r \in DOMAIN runs :
          /\ runs[r].projectId = 2
          /\ {runCases[rc].caseId : rc \in {x \in DOMAIN runCases : runCases[x].runId = r}} = {2}

\* C13: in every state no two run-cases have the same run and the same
\* case, and a createRun call that names a case of the project twice
\* succeeds and adds a single run-case for it.
C13_OneRunCasePerPair ==
    /\ [](\A a \in DOMAIN runCases : \A b \in DOMAIN runCases :
             (runCases[a].runId = runCases[b].runId /\ runCases[a].caseId = runCases[b].caseId)
                => a = b)
    /\ [][\A actor \in Actors :
             (/\ CreateRunCall(1, <<1, 1>>, actor)
              /\ 1 \in DOMAIN cases
              /\ cases[1].projectId = 1) =>
                /\ last'.ok
                /\ Cardinality({rc \in DOMAIN runCases' :
                                   /\ runCases'[rc].runId = seq.runs + 1
                                   /\ runCases'[rc].caseId = 1}) = 1]_vars

\* Two runs that both hold case 1, each once.
C13_Witness ==
    /\ last.op = "createRun"
    /\ last.ok
    /\ DOMAIN runs = {1, 2}
    /\ \A r \in DOMAIN runs :
          Cardinality({rc \in DOMAIN runCases :
                         runCases[rc].runId = r /\ runCases[rc].caseId = 1}) = 1

\* C14: after deleteCase(caseId) the case, its versions and their steps,
\* the run-cases of the case in every run, their results and the step
\* results of those are gone, and no row refers to the case; the other
\* cases, their versions and steps, the runs, and the run-cases, results
\* and step results of the other cases are as they were.
C14_DeleteCaseCascade ==
    [][\A caseId \in 1..MaxCases :
          Call("deleteCase", Ok(deleteCase(DB, caseId), caseId), FALSE) =>
             LET verIds == {v \in DOMAIN versions : versions[v].caseId = caseId}
                 rcIds == {rc \in DOMAIN runCases : runCases[rc].caseId = caseId}
                 resIds == {r \in DOMAIN results : results[r].runCaseId \in rcIds}
             IN /\ caseId \notin DOMAIN cases'
                /\ \A v \in DOMAIN versions' : versions'[v].caseId # caseId
                /\ \A st \in steps' : st.caseVersionId \in DOMAIN versions'
                /\ \A rc \in DOMAIN runCases' :
                      /\ runCases'[rc].caseId # caseId
                      /\ runCases'[rc].caseVersionId \in DOMAIN versions'
                /\ \A r \in DOMAIN results' : results'[r].runCaseId \in DOMAIN runCases'
                /\ \A sr \in stepResults' : sr.resultId \in DOMAIN results'
                /\ cases' = Without(cases, {caseId})
                /\ versions' = Without(versions, verIds)
                /\ steps' = {st \in steps : st.caseVersionId \notin verIds}
                /\ runs' = runs
                /\ runCases' = Without(runCases, rcIds)
                /\ results' = Without(results, resIds)
                /\ stepResults' = {sr \in stepResults : sr.resultId \notin resIds}]_vars

\* Case 1 was in both runs, with a result in each, and is deleted; case 2
\* keeps its run-cases in both runs.
C14_Witness ==
    /\ last.op = "deleteCase"
    /\ DOMAIN cases = {2}
    /\ seq.results = 2
    /\ DOMAIN results = {}
    /\ DOMAIN runs = {1, 2}
    /\ \A r \in DOMAIN runs :
          {runCases[rc].caseId : rc \in {x \in DOMAIN runCases : runCases[x].runId = r}} = {2}

\* C15: after deleteRun(runId) the run, its run-cases, their results and
\* the step results of those are gone; cases, versions and steps, the other
\* runs, and the run-cases, results and step results of the other runs are
\* as they were.
C15_DeleteRunFrame ==
    [][\A runId \in 1..MaxRunsBinding :
          Call("deleteRun", Ok(deleteRun(DB, runId), runId), FALSE) =>
             LET rcIds == {rc \in DOMAIN runCases : runCases[rc].runId = runId}
                 resIds == {r \in DOMAIN results : results[r].runCaseId \in rcIds}
             IN /\ runs' = Without(runs, {runId})
                /\ runCases' = Without(runCases, rcIds)
                /\ results' = Without(results, resIds)
                /\ stepResults' = {sr \in stepResults : sr.resultId \notin resIds}
                /\ \A rc \in DOMAIN runCases' : runCases'[rc].runId \in DOMAIN runs'
                /\ \A r \in DOMAIN results' : results'[r].runCaseId \in DOMAIN runCases'
                /\ \A sr \in stepResults' : sr.resultId \in DOMAIN results'
                /\ <<cases, versions, steps, suites, projects, users>>' =
                      <<cases, versions, steps, suites, projects, users>>]_vars

\* Run 1 is deleted with its result; run 2 keeps its run-cases and its
\* result with two step results.
C15_Witness ==
    /\ last.op = "deleteRun"
    /\ DOMAIN runs = {2}
    /\ seq.results = 2
    /\ Cardinality(DOMAIN results) = 1
    /\ \E r \in DOMAIN results :
          /\ runCases[results[r].runCaseId].runId = 2
          /\ Cardinality({sr \in stepResults : sr.resultId = r}) = 2

\* C16: updateRunStatus(runId, status) leaves every table but test_runs as
\* it was and every other run, and every other column of the run, as it
\* was; the run then has the status given, whatever status it had, so the
\* flag can go from open to closed and back.
C16_UpdateRunStatusFrame ==
    [][\A runId \in 1..MaxRuns : \A status \in RunStatuses :
          Call("updateRunStatus", Ok(updateRunStatus(DB, runId, status), runId), FALSE) =>
             /\ <<users, projects, suites, cases, versions, steps, runCases, results,
                   stepResults, importLogs, importLogRows, seq>>' =
                <<users, projects, suites, cases, versions, steps, runCases, results,
                  stepResults, importLogs, importLogRows, seq>>
             /\ DOMAIN runs' = DOMAIN runs
             /\ \A r \in DOMAIN runs :
                   IF r = runId
                   THEN runs'[r] = [runs[r] EXCEPT !.status = status]
                   ELSE runs'[r] = runs[r]]_vars

\* A closed run whose run-case still has its result and its status.
C16_Witness ==
    /\ last.op = "updateRunStatus"
    /\ \E r \in DOMAIN runs :
          /\ runs[r].status = "closed"
          /\ \E rc \in DOMAIN runCases :
                /\ runCases[rc].runId = r
                /\ runCases[rc].status = "fail"
                /\ ResultOf(DB, rc) # {}

\* C17: a diff request is answered with the error version_not_found when
\* the from id or the to id is the id of no version (of one that never was,
\* or of one that went with its case), and with a diff (fields, stepsAdded,
\* stepsRemoved, stepsChanged) when both are ids of versions.
C17_DiffVersionNotFound ==
    response.op = "diffCaseVersions" =>
       IF response.fromVersionId \in DOMAIN versions /\ response.toVersionId \in DOMAIN versions
       THEN /\ response.diff.ok
            /\ DOMAIN response.diff = {"ok", "fields", "stepsAdded", "stepsRemoved", "stepsChanged"}
       ELSE response.diff = [ok |-> FALSE, error |-> "version_not_found"]

\* The from id is that of a version deleted with its case, the to id that
\* of a version there is.
C17_Witness ==
    /\ response.op = "diffCaseVersions"
    /\ last.op = "deleteCase"
    /\ response.fromVersionId <= seq.versions
    /\ response.fromVersionId \notin DOMAIN versions
    /\ response.toVersionId \in DOMAIN versions
    /\ ~response.diff.ok

\* C18: the diff of a version with itself has no fields, no steps added,
\* none removed and none changed.
C18_DiffWithItselfEmpty ==
    (/\ response.op = "diffCaseVersions"
     /\ response.fromVersionId = response.toVersionId
     /\ response.fromVersionId \in DOMAIN versions) =>
        response.diff = [ok |-> TRUE, fields |-> <<>>, stepsAdded |-> <<>>,
                         stepsRemoved |-> <<>>, stepsChanged |-> <<>>]

\* The version diffed with itself has tags and two steps.
C18_Witness ==
    /\ response.op = "diffCaseVersions"
    /\ response.fromVersionId = response.toVersionId
    /\ response.fromVersionId \in DOMAIN versions
    /\ response.diff.ok
    /\ JSONparse(versions[response.fromVersionId].snapshot).tags # <<>>
    /\ Len(getVersionSteps(DB, response.fromVersionId)) = 2

\* C19: for two versions A and B the diff of B against A is the diff of A
\* against B with from and to exchanged: the same fields in the same order,
\* each with its two values exchanged; the steps added one way are the
\* steps removed the other way; the same steps changed, each with its two
\* records exchanged.
C19_DiffMirror ==
    (response.op = "diffCaseVersions" /\ response.diff.ok) =>
       LET forth == response.diff
           back == diffCaseVersions(DB, response.toVersionId, response.fromVersionId)
       IN /\ back.ok
          /\ back.fields = [i \in DOMAIN forth.fields |->
                               [field |-> forth.fields[i].field,
                                from |-> forth.fields[i].to,
                                to |-> forth.fields[i].from]]
          /\ back.stepsRemoved = forth.stepsAdded
          /\ back.stepsAdded = forth.stepsRemoved
          /\ back.stepsChanged = [i \in DOMAIN forth.stepsChanged |->
                                     [stepNo |-> forth.stepsChanged[i].stepNo,
                                      from |-> forth.stepsChanged[i].to,
                                      to |-> forth.stepsChanged[i].from]]

\* A diff of two versions with fields that differ, a step added, a step
\* removed and a step changed.
C19_Witness ==
    /\ response.op = "diffCaseVersions"
    /\ response.diff.ok
    /\ response.fromVersionId # response.toVersionId
    /\ response.diff.fields # <<>>
    /\ response.diff.stepsAdded # <<>>
    /\ response.diff.stepsRemoved # <<>>
    /\ response.diff.stepsChanged # <<>>

\* The number of entries of a list about the step number stepNo.
EntriesOf(list, stepNo) == Cardinality({i \in DOMAIN list : list[i].stepNo = stepNo})

AscendingByStepNo(list) ==
    \A i, j \in DOMAIN list : i < j => list[i].stepNo < list[j].stepNo

\* C20: the step diff is keyed by stepNo.  A step number only in the to
\* version is once in stepsAdded with the to step; one only in the from
\* version is once in stepsRemoved with the from step; one in both with
\* steps that differ is once in stepsChanged with both steps; one with the
\* same step in both is in no list.  A step number is in at most one of
\* the three lists, and each list ascends by stepNo.
C20_StepDiffKeyedByStepNo ==
    (response.op = "diffCaseVersions" /\ response.diff.ok) =>
       LET diff == response.diff
           fromSteps == Range(getVersionSteps(DB, response.fromVersionId))
           toSteps == Range(getVersionSteps(DB, response.toVersionId))
           fromNos == {step.stepNo : step \in fromSteps}
           toNos == {step.stepNo : step \in toSteps}
           InNone(stepNo) == /\ EntriesOf(diff.stepsAdded, stepNo) = 0
                             /\ EntriesOf(diff.stepsRemoved, stepNo) = 0
                             /\ EntriesOf(diff.stepsChanged, stepNo) = 0
       IN /\ \A toStep \in toSteps : toStep.stepNo \notin fromNos =>
                /\ EntriesOf(diff.stepsAdded, toStep.stepNo) = 1
                /\ toStep \in Range(diff.stepsAdded)
                /\ EntriesOf(diff.stepsRemoved, toStep.stepNo) = 0
                /\ EntriesOf(diff.stepsChanged, toStep.stepNo) = 0
          /\ \A fromStep \in fromSteps : fromStep.stepNo \notin toNos =>
                /\ EntriesOf(diff.stepsRemoved, fromStep.stepNo) = 1
                /\ fromStep \in Range(diff.stepsRemoved)
                /\ EntriesOf(diff.stepsAdded, fromStep.stepNo) = 0
                /\ EntriesOf(diff.stepsChanged, fromStep.stepNo) = 0
          /\ \A fromStep \in fromSteps, toStep \in toSteps :
                fromStep.stepNo = toStep.stepNo =>
                   IF fromStep = toStep
                   THEN InNone(toStep.stepNo)
                   ELSE /\ EntriesOf(diff.stepsChanged, toStep.stepNo) = 1
                        /\ [stepNo |-> toStep.stepNo, from |-> fromStep, to |-> toStep]
                              \in Range(diff.stepsChanged)
                        /\ EntriesOf(diff.stepsAdded, toStep.stepNo) = 0
                        /\ EntriesOf(diff.stepsRemoved, toStep.stepNo) = 0
          /\ AscendingByStepNo(diff.stepsAdded)
          /\ AscendingByStepNo(diff.stepsRemoved)
          /\ AscendingByStepNo(diff.stepsChanged)

\* A diff of two versions that share one step unchanged and one step
\* changed, with a step only in each of them.
C20_Witness ==
    /\ response.op = "diffCaseVersions"
    /\ response.diff.ok
    /\ Len(response.diff.stepsAdded) = 1
    /\ Len(response.diff.stepsRemoved) = 1
    /\ Len(response.diff.stepsChanged) = 1
    /\ \E step \in Range(getVersionSteps(DB, response.fromVersionId)) :
          step \in Range(getVersionSteps(DB, response.toVersionId))

\* C21: the field diff lists exactly those of the eight compared fields
\* whose values differ between the two snapshots, each once, as the field
\* name with the value of the from version and the value of the to version;
\* and after an edit that changes the title and nothing else, the diff of
\* the former head against the new head is the one entry for the title
\* and no step entry.
C21_FieldDiffExact ==
    /\ [](( response.op = "diffCaseVersions" /\ response.diff.ok) =>
            LET from == JSONparse(versions[response.fromVersionId].snapshot)
                to == JSONparse(versions[response.toVersionId].snapshot)
                fields == response.diff.fields
                eight == {"title", "qualityAttribute", "categoryLarge", "categoryMedium",
                          "preconditions", "priority", "tags", "suiteId"}
            IN /\ \A i \in DOMAIN fields : fields[i].field \in eight
               /\ \A name \in eight :
                     LET entries == {i \in DOMAIN fields : fields[i].field = name}
                     IN IF from[name] = to[name] THEN entries = {}
                        ELSE /\ Cardinality(entries) = 1
                             /\ \A i \in entries :
                                   fields[i] = [field |-> name, from |-> from[name],
                                                to |-> to[name]])
    /\ [][\A caseId \in DOMAIN cases : \A actor \in Actors :
            (/\ Respond("putCase", putCase(DB, caseId, PutBodies[1], actor))
             /\ response'.status = 200
             /\ cases[caseId].title # PutBodies[1].title) =>
                diffCaseVersions(DBNext, cases[caseId].currentVersionId,
                                 cases'[caseId].currentVersionId)
                   = [ok |-> TRUE,
                      fields |-> <<[field |-> "title", from |-> cases[caseId].title,
                                    to |-> PutBodies[1].title]>>,
                      stepsAdded |-> <<>>, stepsRemoved |-> <<>>, stepsChanged |-> <<>>]]_vars

\* The diff read after a case with steps was renamed: the former head
\* against the head, one entry for the title, no step entry.
C21_Witness ==
    /\ response.op = "diffCaseVersions"
    /\ response.diff.ok
    /\ \E caseId \in DOMAIN cases :
          /\ cases[caseId].currentVersionId = response.toVersionId
          /\ cases[caseId].title = PutBodies[1].title
          /\ versions[response.fromVersionId].caseId = caseId
          /\ versions[response.fromVersionId].versionNo + 1
                = versions[response.toVersionId].versionNo
    /\ Len(response.diff.fields) = 1
    /\ response.diff.fields[1].field = "title"
    /\ response.diff.stepsAdded = <<>>
    /\ response.diff.stepsRemoved = <<>>
    /\ response.diff.stepsChanged = <<>>
    /\ getVersionSteps(DB, response.toVersionId) # <<>>

\* C22: the steps getCaseVersion returns for a version are the Step rows
\* of that version in ascending stepNo order; they are the normalized steps
\* of the request that created the version, and they stay what they are
\* for as long as the version exists; for an id that no version has,
\* getCaseVersion returns null.
C22_StepsRoundTrip ==
    /\ [](\A versionId \in 1..(MaxVersions + 1) :
            IF versionId \in DOMAIN versions
            THEN /\ Len(getCaseVersion(DB, versionId)) = 1
                 /\ getCaseVersion(DB, versionId)[1].snapshot.steps
                       = getVersionSteps(DB, versionId)
                 /\ Range(getVersionSteps(DB, versionId))
                       = {[stepNo |-> row.stepNo, action |-> row.action,
                           inputData |-> row.inputData,
                           expectedResult |-> row.expectedResult] :
                             row \in StepRowsOf(DB, versionId)}
                 /\ Len(getVersionSteps(DB, versionId))
                       = Cardinality(StepRowsOf(DB, versionId))
                 /\ AscendingByStepNo(getVersionSteps(DB, versionId))
            ELSE getCaseVersion(DB, versionId) = <<>>)
    /\ [][/\ \A input \in CaseInputs : \A actor \in Actors :
               (/\ last'.op = "createCaseWithVersion" /\ last'.ok
                /\ Call("createCaseWithVersion",
                        createCaseWithVersion(DB, input @@ [createdBy |-> actor]), FALSE)) =>
                   getCaseVersion(DBNext, seq'.versions)[1].snapshot.steps
                      = normalizeSteps(input.steps)
          /\ \A caseId \in 1..MaxCases : \A input \in CaseInputs : \A actor \in Actors :
               (/\ last'.op = "createVersionForCase" /\ last'.ok
                /\ Call("createVersionForCase",
                        createVersionForCase(DB, caseId, input, actor), FALSE)) =>
                   getCaseVersion(DBNext, seq'.versions)[1].snapshot.steps
                      = normalizeSteps(input.steps)
          /\ \A versionId \in DOMAIN versions \cap DOMAIN versions' :
                /\ getVersionSteps(DBNext, versionId) = getVersionSteps(DB, versionId)
                /\ getCaseVersion(DBNext, versionId)[1].snapshot.steps
                      = getCaseVersion(DB, versionId)[1].snapshot.steps]_vars

\* A version made from steps sent out of order, with blanks around the
\* texts and with a step number that is no number, read back after a
\* later request; the next id has no version.
C22_Witness ==
    /\ last.op \in {"deleteCase", "createRun", "saveRunCaseResult"}
    /\ \E versionId \in DOMAIN versions :
          /\ getCaseVersion(DB, versionId)[1].snapshot.steps
                = <<Step(0, <<"z">>, <<>>), Step(1, <<"o">>, <<"n">>), Step(2, <<"s">>, <<"k">>)>>
          /\ getVersionSteps(DB, versionId) = getCaseVersion(DB, versionId)[1].snapshot.steps
    /\ getCaseVersion(DB, seq.versions + 1) = <<>>

\* C23: every stored Step has a step number that is a positive integer,
\* no other Step of its version has the same number, and its expected
\* result is not the empty text.
C23_StepsWellFormed ==
    \A row \in steps :
       /\ row.stepNo \in Nat \ {0}
       /\ \A other \in steps :
             (other.caseVersionId = row.caseVersionId /\ other.stepNo = row.stepNo) =>
                other = row
       /\ row.expectedResult # <<>>

\* C24: a request to create a case, or to edit an existing case, whose
\* title is empty is answered with a client error and writes nothing: the
\* cases, the versions and the steps are what they were.
C24_EmptyTitleRejected ==
    [][/\ \A i \in {2, 3} : \A actor \in Actors :
            (/\ response'.op = "postCase"
             /\ Respond("postCase", postCase(DB, 1, PostBodies[i], actor))) =>
                /\ response'.status \in 400..499
                /\ cases' = cases /\ versions' = versions /\ steps' = steps
       /\ \A caseId \in DOMAIN cases : \A actor \in Actors :
            (/\ response'.op = "putCase"
             /\ Respond("putCase", putCase(DB, caseId, PutBodies[3], actor))) =>
                /\ response'.status \in 400..499
                /\ cases' = cases /\ versions' = versions /\ steps' = steps]_vars

\* C25: a request addressed to a case, a run or a run-case that does not
\* exist is answered 404 and leaves the database as it was: the reads of a
\* case, a run and a run-case, the edit and the deletion of a case, the
\* change of status, the update and the deletion of a run, and the saving
\* of a result.
C25_AbsentIsNotFound ==
    [][(/\ \/ /\ response'.op \in {"getCase", "putCase", "deleteCase"}
              /\ \E caseId \in (1..MaxCases) \ DOMAIN cases : \E i \in DOMAIN PutBodies :
                    \E actor \in Actors :
                       \/ Respond("getCase", getCase(DB, caseId))
                       \/ Respond("putCase", putCase(DB, caseId, PutBodies[i], actor))
                       \/ Respond("deleteCase", deleteCaseRoute(DB, caseId))
           \/ /\ response'.op \in {"getRun", "patchRunStatus", "patchRun", "deleteRun"}
              /\ \E runId \in (1..MaxRuns) \ DOMAIN runs : \E status \in RunStatuses :
                    \/ Respond("getRun", getRun(DB, runId))
                    \/ Respond("patchRunStatus", patchRunStatus(DB, runId, status))
                    \/ Respond("patchRun", patchRun(DB, runId, PatchRunBodies[1]))
                    \/ Respond("deleteRun", deleteRunRoute(DB, runId))
           \/ /\ response'.op \in {"getRunCase", "postResult"}
              /\ \E runCaseId \in (1..(seq.runCases + 1)) \ DOMAIN runCases :
                    \E input \in ResultInputs : \E actor \in Actors :
                       \/ Respond("getRunCase", getRunCase(DB, runCaseId))
                       \/ Respond("postResult", postResult(DB, runCaseId, input, actor)))
        => (response'.status = 404 /\ DBNext = DB)]_vars

FailureIds(list) == {list[i].runCaseId : i \in DOMAIN list}

\* C27: the failures of a project list each run-case of the project whose
\* status is fail, once, the newest first, with the title and priority of
\* its case and the comment of its result.  A run-case is listed exactly
\* when it exists and the result last saved for it derived fail; it enters
\* the list only by a save, and leaves it only by a save or by the
\* deletion of its case or of its run.
C27_FailuresCurrent ==
    /\ [](response.op = "reportFailures" =>
            LET list == response.failures
            IN /\ \A rc \in 1..seq.runCases :
                    Cardinality({i \in DOMAIN list : list[i].runCaseId = rc})
                       = IF /\ rc \in DOMAIN runCases
                            /\ runs[runCases[rc].runId].projectId = response.projectId
                            /\ runCases[rc].status = "fail"
                         THEN 1 ELSE 0
               /\ \A rc \in FailureIds(list) :
                    \E r \in ResultOf(DB, rc) : results[r].overallStatus = "fail"
               /\ \A i, j \in DOMAIN list : i < j => list[i].runCaseId > list[j].runCaseId
               /\ \A i \in DOMAIN list :
                    LET rc == runCases[list[i].runCaseId]
                    IN /\ list[i].runId = rc.runId
                       /\ list[i].runName = runs[rc.runId].name
                       /\ list[i].caseId = rc.caseId
                       /\ list[i].caseTitle = cases[rc.caseId].title
                       /\ list[i].priority = cases[rc.caseId].priority
                       /\ \E r \in ResultOf(DB, list[i].runCaseId) :
                             list[i].comment = results[r].comment)
    /\ [][\A projectId \in 1..MaxProjects :
            LET before == FailureIds(reportFailures(DB, projectId))
                after == FailureIds(reportFailures(DBNext, projectId))
            IN /\ after \ before # {} =>
                    /\ last'.op = "saveRunCaseResult" /\ last'.ok
                    /\ \A rc \in after \ before :
                          \E r \in ResultOf(DBNext, rc) : results'[r].overallStatus = "fail"
               /\ \A rc \in before \ after :
                    \/ /\ last'.op = "saveRunCaseResult" /\ last'.ok
                       /\ \E r \in ResultOf(DBNext, rc) : results'[r].overallStatus # "fail"
                    \/ /\ last'.op = "deleteCase"
                       /\ runCases[rc].caseId \notin DOMAIN cases'
                    \/ /\ last'.op = "deleteRun"
                       /\ runCases[rc].runId \notin DOMAIN runs']_vars

\* The failures read with two run-cases listed, the newer first, while a
\* third run-case is gone with its run.
C27_Witness ==
    /\ response.op = "reportFailures"
    /\ Len(response.failures) = 2
    /\ response.failures[1].runCaseId > response.failures[2].runCaseId
    /\ response.failures[1].comment = <<"seen">>
    /\ \E rc \in 1..seq.runCases : rc \notin DOMAIN runCases

\* The priority of the head version of a case.
HeadPriority(d, caseId) == JSONparse(d.versions[HeadVersion(d, caseId)].snapshot).priority

\* The cases of a project whose head version has the priority given.
CasesWithPriority(d, projectId, priority) ==
    {c \in DOMAIN d.cases :
        d.cases[c].projectId = projectId /\ HeadPriority(d, c) = priority}

\* C28: the breakdown by priority of a project has one row for each
\* priority that the head version of a case of the project has, with the
\* number of those cases, and no other row; the rows are in non-increasing
\* order of count and the counts add up to the number of cases of the
\* project.  An edit that gives a case another priority moves the case
\* from the count of the old priority to the count of the new one.
C28_PriorityBreakdown ==
    /\ [](response.op = "reportPriority" =>
            LET rows == response.priorities
                ofProject == {c \in DOMAIN cases : cases[c].projectId = response.projectId}
            IN /\ \A c \in ofProject :
                    \E i \in DOMAIN rows :
                       /\ rows[i].priority = HeadPriority(DB, c)
                       /\ rows[i].count
                             = Cardinality(CasesWithPriority(DB, response.projectId,
                                                             HeadPriority(DB, c)))
               /\ \A i \in DOMAIN rows :
                    \E c \in ofProject : rows[i].priority = HeadPriority(DB, c)
               /\ \A i, j \in DOMAIN rows : rows[i].priority = rows[j].priority => i = j
               /\ \A i, j \in DOMAIN rows : i < j => rows[i].count >= rows[j].count
               /\ Cardinality(UNION {CasesWithPriority(DB, response.projectId, rows[i].priority) :
                                       i \in DOMAIN rows})
                     = Cardinality(ofProject))
    /\ [][\A c \in DOMAIN cases :
            (/\ last'.op = "createVersionForCase" /\ last'.ok
             /\ HeadVersion(DBNext, c) # HeadVersion(DB, c)
             /\ HeadPriority(DBNext, c) # HeadPriority(DB, c)) =>
                \A rows \in reportPriority(DBNext, cases[c].projectId) :
                   /\ \E i \in DOMAIN rows :
                         /\ rows[i].priority = HeadPriority(DBNext, c)
                         /\ rows[i].count
                               = Cardinality(CasesWithPriority(DB, cases[c].projectId,
                                                               HeadPriority(DBNext, c))) + 1
                   /\ \A i \in DOMAIN rows :
                         rows[i].priority = HeadPriority(DB, c) =>
                            rows[i].count
                              = Cardinality(CasesWithPriority(DB, cases[c].projectId,
                                                              HeadPriority(DB, c))) - 1]_vars

\* The breakdown of a project with two cases of one priority and one of
\* another.
C28_Witness ==
    /\ response.op = "reportPriority"
    /\ Len(response.priorities) = 2
    /\ response.priorities[1].count = 2
    /\ response.priorities[2].count = 1

(***************************************************************************)
(* The case row and its head version                                       *)
(***************************************************************************)
\* The fields a case row shares with the snapshot of a version.
MirroredFields == {"title", "suiteId", "qualityAttribute", "categoryLarge",
                   "categoryMedium", "preconditions", "priority"}

\* The row of case c says what the snapshot of version v says: the seven
\* scalar columns as they are, the tags column as the JSON text of the list.
RowMirrorsVersion(d, c, v) ==
    LET snapshot == JSONparse(d.versions[v].snapshot)
    IN /\ \A f \in MirroredFields : d.cases[c][f] = snapshot[f]
       /\ JSONparse(d.cases[c].tags) = snapshot.tags

\* C29: in every reachable state the row of every case carries the title,
\* suiteId, qualityAttribute, categoryLarge, categoryMedium, preconditions,
\* priority and tags of the snapshot of the version its currentVersionId
\* names.
C29_CaseMirrorsHead ==
    \A c \in DOMAIN cases :
       cases[c].currentVersionId \in DOMAIN versions
          => RowMirrorsVersion(DB, c, cases[c].currentVersionId)

\* A case that was edited into a second version with another title, another
\* priority and other tags than its first version has.
C29_Witness ==
    /\ last.op = "createVersionForCase"
    /\ last.ok
    /\ \E c \in DOMAIN cases : \E v \in VersionsOf(DB, c) :
          LET head == JSONparse(versions[cases[c].currentVersionId].snapshot)
              old == JSONparse(versions[v].snapshot)
          IN /\ v # cases[c].currentVersionId
             /\ old.title # head.title
             /\ old.priority # head.priority
             /\ old.tags # head.tags
             /\ cases[c].priority = head.priority

\* The cases the loop of createRun would skip: `if (!row.current_version_id)
\* continue`.
HeadlessCases(d) == {c \in DOMAIN d.cases : d.cases[c].currentVersionId = NULL}

\* C30: in every committed state every case has a currentVersionId that is
\* not null and names a version of that same case, also right after a
\* createCaseWithVersion that failed; so createRun never meets a case it
\* would skip for having no head version.
C30_HeadNeverNull ==
    /\ HeadlessCases(DB) = {}
    /\ \A c \in DOMAIN cases :
          /\ cases[c].currentVersionId \in DOMAIN versions
          /\ versions[cases[c].currentVersionId].caseId = c

\* The state a failed createCaseWithVersion left, an earlier case in store,
\* where a createCaseWithVersion fails after its INSERT of the case row (the
\* row passes its checks, a step row does not).
C30_Witness ==
    /\ last.op = "createCaseWithVersion"
    /\ ~last.ok
    /\ DOMAIN cases # {}
    /\ \E input \in CaseInputs : \E actor \in Actors :
          LET r == createCaseWithVersionTx(DB, input @@ [createdBy |-> actor])
          IN ~r.ok /\ DOMAIN r.d.cases # DOMAIN cases

(***************************************************************************)
(* Import                                                                  *)
(***************************************************************************)
\* The text of the file uploaded under a name.
FileNamed(fileName) ==
    ImportFiles[CHOOSE i \in DOMAIN ImportFiles : ImportFiles[i].fileName = fileName].csvText

\* The rows of a file that pass parseCsvWithValidation and
\* validateGroupedPreviewRows.
ValidRowsOf(csvText) ==
    SelectSeq(validateGroupedPreviewRows(parseCsvWithValidation(csvText).preview),
              LAMBDA pr : pr.status # "fail")

\* The valid rows of a file, grouped by the key text executeImport builds.
KeyGroups(csvText) ==
    LET validRows == ValidRowsOf(csvText)
    IN {SelectSeq(validRows, LAMBDA item : GroupKey(item.row) = GroupKey(validRows[i].row))
           : i \in DOMAIN validRows}

\* The valid rows of a file, grouped by the pair (suite, case_title).
PairGroups(csvText) ==
    LET validRows == ValidRowsOf(csvText)
    IN {SelectSeq(validRows,
                  LAMBDA item : GroupKeyPair(item.row) = GroupKeyPair(validRows[i].row))
           : i \in DOMAIN validRows}

\* The import importLogId logged every row of g with this status.
GroupLogged(d, importLogId, g, status) ==
    \A i \in DOMAIN g :
       \E lr \in d.importLogRows :
          /\ lr.importLogId = importLogId
          /\ lr.rowNumber = g[i].rowNumber
          /\ lr.status = status

\* The step a row of a file describes.
StepOfRow(row) ==
    [stepNo |-> toNumber(row.step_no), action |-> row.test_step,
     inputData |-> row.input_data, expectedResult |-> row.expected_result]

\* What the import of the rows g into projectId did between d and dn: the
\* suite and title of the first row name one case; it was there before and
\* gained one version numbered one above its highest, or it was not and is
\* new with version 1; that version is its head and its steps are the rows
\* of g by ascending step_no.
ImportedGroupOk(d, dn, projectId, g) ==
    LET first == g[1].row
        suiteIds == {s \in DOMAIN dn.suites :
                       /\ dn.suites[s].projectId = projectId
                       /\ dn.suites[s].name = first.suite}
        after == {c \in DOMAIN dn.cases :
                    dn.cases[c].suiteId \in suiteIds /\ dn.cases[c].title = first.case_title}
        before == {c \in DOMAIN d.cases :
                     d.cases[c].suiteId \in suiteIds /\ d.cases[c].title = first.case_title}
    IN /\ Cardinality(suiteIds) = 1
       /\ Cardinality(after) = 1
       /\ LET c == CHOOSE x \in after : TRUE
              h == dn.cases[c].currentVersionId
              stepList == getVersionSteps(dn, h)
          IN /\ VersionsOf(dn, c) = VersionsOf(d, c) \cup {h}
             /\ h \notin DOMAIN d.versions
             /\ dn.cases[c].projectId = projectId
             /\ before # {} =>
                   /\ before = after
                   /\ dn.versions[h].versionNo =
                         Max({d.versions[v].versionNo : v \in VersionsOf(d, c)}) + 1
             /\ before = {} =>
                   /\ c \notin DOMAIN d.cases
                   /\ dn.versions[h].versionNo = 1
             /\ Len(stepList) = Len(g)
             /\ \A i, j \in DOMAIN stepList : i < j => stepList[i].stepNo < stepList[j].stepNo
             /\ Range(stepList) = {StepOfRow(g[i].row) : i \in DOMAIN g}

RowGroups(csvText) ==
    LET rows == validateGroupedPreviewRows(parseCsvWithValidation(csvText).preview)
    IN {SelectSeq(rows, LAMBDA item : GroupKey(item.row) = GroupKey(rows[i].row))
           : i \in DOMAIN rows}

\* The cases of projectId that the suite and case_title of row name in d.
CasesNamed(d, projectId, row) ==
    {c \in DOMAIN d.cases :
        /\ d.cases[c].projectId = projectId
        /\ d.cases[c].title = Trim(Cell(row, "case_title"))
        /\ d.cases[c].suiteId \in DOMAIN d.suites
        /\ d.suites[d.cases[c].suiteId].name = Trim(Cell(row, "suite"))}

\* C32: an import writes nothing for a (suite, case_title) group one of
\* whose rows failed validation: no case is created for it and the case it
\* names, if there is one, gains no version.
C32_NoPartialWrite ==
    [][(/\ last'.op = "executeImport"
        /\ seq'.importLogs # seq.importLogs)
          => LET id == seq'.importLogs
             IN \A g \in RowGroups(FileNamed(importLogs'[id].fileName)) :
                   (\E i \in DOMAIN g : g[i].status = "fail")
                      => /\ CasesNamed(DBNext, 1, g[1].row) \subseteq DOMAIN cases
                         /\ \A c \in CasesNamed(DBNext, 1, g[1].row) :
                               VersionsOf(DBNext, c) = VersionsOf(DB, c)]_vars

(***************************************************************************)
(* Two editors of one case                                                 *)
(***************************************************************************)
\* The snapshot says what the body of a PUT said, field for field.
SnapshotIsSubmission(snapshot, body) ==
    /\ snapshot.suiteId = body.suiteId
    /\ snapshot.title = body.title
    /\ snapshot.qualityAttribute = body.qualityAttribute
    /\ snapshot.categoryLarge = body.categoryLarge
    /\ snapshot.categoryMedium = body.categoryMedium
    /\ snapshot.preconditions = body.preconditions
    /\ snapshot.priority = body.priority
    /\ snapshot.tags = body.tags
    /\ snapshot.steps = normalizeSteps(body.steps)

C34_DiffWithinOneCase ==
    /\ (response.op = "diffCaseVersions" /\ response.diff.ok)
          => versions[response.fromVersionId].caseId
                = versions[response.toVersionId].caseId
    /\ (response.op = "getCaseDiff" /\ response.answer.status = 200)
          => /\ versions[response.fromVersionId].caseId = response.caseId
             /\ versions[response.toVersionId].caseId = response.caseId

(***************************************************************************)
(* What a run-case references                                              *)
(***************************************************************************)
\* C35: in every reachable state each run-case references a version that
\* exists and is a version of the run-case's own case, and that case is a
\* case of the project of the run-case's run.
C35_RunCaseReferences ==
    \A rc \in DOMAIN runCases :
       /\ runCases[rc].runId \in DOMAIN runs
       /\ runCases[rc].caseId \in DOMAIN cases
       /\ runCases[rc].caseVersionId \in DOMAIN versions
       /\ versions[runCases[rc].caseVersionId].caseId = runCases[rc].caseId
       /\ cases[runCases[rc].caseId].projectId = runs[runCases[rc].runId].projectId

\* A run-case of a run of project 2, bound to a version its case has since
\* left behind, while project 1 has a case too.
C35_Witness ==
    \E rc \in DOMAIN runCases :
       /\ runs[runCases[rc].runId].projectId = 2
       /\ cases[runCases[rc].caseId].currentVersionId # runCases[rc].caseVersionId
       /\ \E c \in DOMAIN cases : cases[c].projectId = 1

(***************************************************************************)
(* The stored aggregate and the stored step results                        *)
(***************************************************************************)
\* The statuses of the step results stored for a result, by step_no.
StoredStatuses(d, resultId) ==
    LET rows == StepResultsAscending({sr \in d.stepResults : sr.resultId = resultId})
    IN [i \in DOMAIN rows |-> rows[i].status]

\* C36: in every reachable state the overallStatus of each stored result is
\* what calcOverallStatus gives for the statuses of the step results stored
\* for that result, also after a result was saved again and after a save
\* that failed.
C36_AggregateMatchesSteps ==
    \A r \in DOMAIN results :
       results[r].overallStatus = calcOverallStatus(StoredStatuses(DB, r))

\* A save that failed on a run-case whose result had been saved before and
\* keeps its two step results, one of them failed.
C36_Witness ==
    /\ last.op = "saveRunCaseResult"
    /\ ~last.ok
    /\ last.existing
    /\ \E r \in DOMAIN results :
          /\ Len(StoredStatuses(DB, r)) = 2
          /\ results[r].overallStatus = "fail"

(***************************************************************************)
(* Results on the run-cases of a closed run                                *)
(***************************************************************************)
\* The database with the run of a run-case reopened.
Reopened(d, runCaseId) ==
    [d EXCEPT !.runs[d.runCases[runCaseId].runId].status = "open"]

\* C37: saveRunCaseResult on a run-case whose run is closed does what it
\* would do were the run open: it succeeds or fails alike and leaves the
\* same results, step results and run-case statuses; a well-formed save
\* succeeds, and the run stays closed.
C37_ClosedRunTakesResults ==
    [][last'.op = "saveRunCaseResult" =>
         \A runCaseId \in DOMAIN runCases : \A input \in ResultInputs : \A actor \in Actors :
            (/\ runs[runCases[runCaseId].runId].status = "closed"
             /\ SaveRunCaseResultCall(runCaseId, input, actor))
               => LET r == saveRunCaseResult(Reopened(DB, runCaseId),
                              [runCaseId |-> runCaseId, executedBy |-> actor,
                               comment |-> input.comment,
                               stepResults |-> input.stepResults])
                  IN /\ last'.ok = r.ok
                     /\ results' = r.d.results
                     /\ stepResults' = r.d.stepResults
                     /\ runCases' = r.d.runCases
                     /\ runs' = runs
                     /\ (\A i, j \in DOMAIN input.stepResults :
                            /\ input.stepResults[i].stepNo # NaN
                            /\ i # j => input.stepResults[i].stepNo
                                           # input.stepResults[j].stepNo)
                           => /\ last'.ok
                              /\ runCases'[runCaseId].status
                                    = calcOverallStatus([i \in DOMAIN input.stepResults |->
                                                           input.stepResults[i].status])]_vars

\* A result with two step results, one of them failed, just saved on a
\* run-case of a run that is closed.
C37_Witness ==
    /\ last.op = "saveRunCaseResult"
    /\ last.ok
    /\ \E r \in DOMAIN results :
          /\ runs[runCases[results[r].runCaseId].runId].status = "closed"
          /\ runCases[results[r].runCaseId].status = "fail"
          /\ Cardinality({sr \in stepResults : sr.resultId = r}) = 2

(***************************************************************************)
(* The log of an import                                                    *)
(***************************************************************************)
\* The rows import importLogId logged for the CSV row rowNumber.
LogRowsFor(d, importLogId, rowNumber) ==
    {lr \in d.importLogRows : lr.importLogId = importLogId /\ lr.rowNumber = rowNumber}

\* C38: for every executeImport, totalRows is the number of CSV data rows
\* and successCount + failCount = totalRows; one import_log_row is written
\* for each data row and none besides, and the counts are the numbers of
\* rows logged with each status; the rows of one group that passed
\* validation are all logged with the same status; every group is attempted
\* and logged whatever happened to the groups before it, and every group
\* logged as success has its case in the store when the import ends.
C38_ImportLog ==
    [][(/\ last'.op = "executeImport"
        /\ seq'.importLogs # seq.importLogs)
          => LET id == seq'.importLogs
                 file == FileNamed(importLogs'[id].fileName)
                 log == importLogs'[id]
                 logged == {lr \in importLogRows' : lr.importLogId = id}
             IN /\ log.totalRows = Len(file)
                /\ log.successCount + log.failCount = log.totalRows
                /\ \A i \in DOMAIN file : Cardinality(LogRowsFor(DBNext, id, i + 1)) = 1
                /\ \A lr \in logged : lr.rowNumber - 1 \in DOMAIN file
                /\ log.successCount = Cardinality({lr \in logged : lr.status = "success"})
                /\ log.failCount = Cardinality({lr \in logged : lr.status = "fail"})
                /\ \A g \in KeyGroups(file) :
                      \/ GroupLogged(DBNext, id, g, "success")
                           /\ CasesNamed(DBNext, 1, g[1].row) # {}
                      \/ GroupLogged(DBNext, id, g, "fail")]_vars

\* both.csv imported: the two rows of Login and the one sound row of Logout
\* are logged as success, the four other rows as failed.
C38_Witness ==
    /\ last.op = "executeImport"
    /\ last.ok
    /\ \E id \in DOMAIN importLogs :
          /\ importLogs[id].fileName = "both.csv"
          /\ importLogs[id].totalRows = 7
          /\ importLogs[id].successCount = 3
          /\ importLogs[id].failCount = 4
          /\ Cardinality({lr \in importLogRows : lr.importLogId = id}) = 7

(***************************************************************************)
(* The run-execution screen and the server (checked under SpecCalc).       *)
(***************************************************************************)
\* C39: for every list of step statuses, the overall status the
\* run-execution screen computes from the step rows being edited equals the
\* overall status saveRunCaseResult derives from the statuses of the same
\* rows.
C39_ScreenMatchesServer ==
    /\ computedRunOverallStatus(RunCaseSteps(listA)) = overallA
    /\ computedRunOverallStatus(RunCaseSteps(listB)) = overallB

\* The screen shows blocked for an untested step followed by a passed one,
\* as the server derives.
C39_Witness ==
    /\ listA = <<"untested", "pass">>
    /\ computedRunOverallStatus(RunCaseSteps(listA)) = "blocked"
    /\ overallA = "blocked"

(***************************************************************************)
(* Logging in (checked under SpecAuth).                                    *)
(***************************************************************************)
\* The tables /api/auth leaves after a step.
AuthDBNext == [users |-> users', accounts |-> accounts', sessions |-> sessions',
               seq |-> authSeq', now |-> now']

\* The body names a user there is.
NamesUser(a, body) == Len(findUserByUsername(a, Trim(OrElse(body.username, <<>>)))) = 1

\* The body names a user there is and carries the password stored for them.
StoredCredentials(a, body) ==
    /\ NamesUser(a, body)
    /\ <<body.password>> =
          <<a.accounts[findUserByUsername(a, Trim(OrElse(body.username, <<>>)))[1].id].password>>

\* The step is the answer of POST /api/auth/login to the body.
LoginStep(body) ==
    LET answer == login(AuthDB, body)
    IN /\ response'.op = "login"
       /\ response'.status = answer.status
       /\ response'.sid = answer.sid
       /\ AuthDBNext = answer.a

\* C40: POST /api/auth/login with the username and the stored password of
\* an existing user answers 200 and creates a session that
\* getUserBySessionId resolves to that user; with the username of an
\* existing user and another password it answers 401 and creates no
\* session.
C40_LoginSucceeds ==
    [][\A i \in DOMAIN LoginNames : \A j \in DOMAIN LoginPasswords :
          LET body == LoginBody(i, j)
          IN (LoginStep(body) /\ NamesUser(AuthDB, body) /\ body.password # UNDEFINED)
            => IF StoredCredentials(AuthDB, body)
               THEN /\ response'.status = 200
                    /\ response'.sid \in DOMAIN sessions' \ DOMAIN sessions
                    /\ getUserBySessionId(AuthDBNext, response'.sid)
                          = findUserByUsername(AuthDB, Trim(body.username))
               ELSE /\ response'.status = 401
                    /\ sessions' = sessions]_vars

====
